---- MODULE Spec2Model ----
(***************************************************************************)
(* The AI provider gateway of cmdo (src/lib/LLMCall.ts) over the on-disk   *)
(* configuration store (src/lib/config/helper.ts).                         *)
(*                                                                         *)
(* One AskAi call is a dispatch: it validates the two prompts, reads the   *)
(* configuration, selects an adapter, runs the adapter's precondition      *)
(* checks and issues one request; the awaited transport then settles and   *)
(* the adapter turns the outcome into an AskAIResponse.                    *)
(***************************************************************************)
EXTENDS Integers, Sequences, FiniteSets, TLC

\* Longest configuration string (apiKey, model, jwt) that is enumerated.
MaxStrLen == 1
\* Longest user prompt that is enumerated.
MaxPromptLen == 2
\* Longest text a provider puts in a reply.
MaxTextLen == 2
MaxChunks == 2
MaxInputLen == 4
MaxPolls == 4

(***************************************************************************)
(* JavaScript values.  A value is undefined, a string (a sequence of       *)
(* one-character strings) or a number (a config field edited by hand).     *)
(***************************************************************************)
JSUndef == [t |-> "undefined", v |-> <<>>]
JSNumber == [t |-> "number", v |-> <<>>]
Str(s) == [t |-> "string", v |-> s]

\* Strings over the alphabet A of length at most n.
StringsUpTo(A, n) == UNION {[1..k -> A] : k \in 0..n}

\* `!x` is false for a non-empty string and for the (non-zero) number.
Truthy(x) == \/ x.t = "number"
             \/ x.t = "string" /\ x.v # <<>>

\* White space for String.prototype.trim: the space and the line break.
IsSpace(c) == c \in {" ", "\n"}

RECURSIVE trimStart(_)
trimStart(s) == IF s = <<>> THEN s
                ELSE IF IsSpace(Head(s)) THEN trimStart(Tail(s)) ELSE s

RECURSIVE trimEnd(_)
trimEnd(s) == IF s = <<>> THEN s
              ELSE IF IsSpace(s[Len(s)]) THEN trimEnd(SubSeq(s, 1, Len(s) - 1)) ELSE s

\* String.prototype.trim
trim(s) == trimEnd(trimStart(s))

\* String.prototype.includes for a one-character needle
includes(s, c) == \E i \in 1..Len(s) : s[i] = c

(***************************************************************************)
(* Results of a piece of code: it returns a value, throws, or suspends on  *)
(* an outbound request.                                                    *)
(***************************************************************************)
Return(x) == [tag |-> "return", val |-> x]
Throw == [tag |-> "throw", val |-> "TypeError"]
Await(r) == [tag |-> "await", val |-> r]

(***************************************************************************)
(* The configuration store: config.json is absent, unparseable, or holds   *)
(* an object.  A key that is not in the object reads as undefined.         *)
(***************************************************************************)
Unset == "<unset>"

KnownProviders == {"groq", "ollama", "openai", "claude", "openrouterai",
                   "togetherai", "huggingface", "replicate", "deepinfra", "server"}

\* provider: unset, empty, the known ids, and an id only validateConfig knows.
ProviderValues == {Unset, ""} \cup KnownProviders \cup {"anthropic"}

ApiKeyValues == {JSUndef, JSNumber} \cup {Str(s) : s \in StringsUpTo({" ", "k"}, MaxStrLen)}
ModelValues == {JSUndef} \cup {Str(s) : s \in StringsUpTo({" ", "m", ":"}, MaxStrLen)}
JwtValues == {JSUndef, Str(<<>>), Str(<<"t">>)}

\* The objects the gateway is run on: every provider, key, model and token,
\* with the server URL of the defaults and no Ollama URL.
ConfigObjects == [provider : ProviderValues, apiKey : ApiKeyValues,
                  model : ModelValues, jwt : JwtValues,
                  serverUrl : {"http://localhost:3000"}, ollamaUrl : {Unset}]

EmptyObject == [provider |-> Unset, apiKey |-> JSUndef, model |-> JSUndef, jwt |-> JSUndef,
                serverUrl |-> Unset, ollamaUrl |-> Unset]

\* config.json: missing, not parseable as JSON, or the text of an object.
NoFile == [state |-> "ENOENT", obj |-> EmptyObject]
Corrupt == [state |-> "not-json", obj |-> EmptyObject]
JsonFile(obj) == [state |-> "json", obj |-> obj]

ConfigFiles == {NoFile, Corrupt} \cup {JsonFile(obj) : obj \in ConfigObjects}

DEFAULT_CONFIG == [provider |-> "server", apiKey |-> Str(<<>>),
                   model |-> JSUndef, jwt |-> Str(<<>>),
                   serverUrl |-> "http://localhost:3000", ollamaUrl |-> Unset]

\* The file after ensureConfigFile.
ensureConfigFile(file) == IF file = NoFile THEN JsonFile(DEFAULT_CONFIG) ELSE file

\* getConfig answering from the defaults instead of the file on disk.
getConfig_stale(file) ==
    [file |-> ensureConfigFile(file), res |-> Return(DEFAULT_CONFIG)]

\* getConfig: the file it leaves behind and the parsed object (or the
\* SyntaxError of JSON.parse).
getConfig(file) ==
    LET f == ensureConfigFile(file)
    IN [file |-> f, res |-> IF f = Corrupt THEN Throw ELSE Return(f.obj)]

\* getConfigValue(key), for the key AskAi's adapters read.
getConfigValue_jwt(file) ==
    LET c == getConfig(file)
    IN [file |-> c.file,
        res |-> IF c.res.tag = "throw" THEN Throw ELSE Return(c.res.val.jwt)]

\* setConfigValue(key, value): read, assign, write back.
setConfigValue(file, key, value) ==
    LET c == getConfig(file)
    IN IF c.res.tag = "throw" THEN [file |-> c.file, res |-> Throw]
       ELSE [file |-> JsonFile([c.res.val EXCEPT ![key] = value]), res |-> Return("void")]

deleteConfig(file) == NoFile

(***************************************************************************)
(* AskAIResponse.  error is the message; the messages of LLMCall.ts are    *)
(* kept as tags, one per message template.                                 *)
(***************************************************************************)
NoError == "<no error>"

createErrorResponse(provider, error, model) ==
    [response |-> <<>>, error |-> error, provider |-> provider, model |-> model]

createSuccessResponse(provider, response, model) ==
    [response |-> response, error |-> NoError, provider |-> provider, model |-> model]

\* validateApiKey without the `apiKey.trim() === ''` test.
validateApiKey_noTrim(apiKey) ==
    IF ~Truthy(apiKey) THEN Return("API key is missing") ELSE Return(NoError)

\* validateApiKey: the message, NoError for null, or the TypeError of
\* calling trim on a value that is not a string.
validateApiKey(apiKey) ==
    IF ~Truthy(apiKey) THEN Return("API key is missing")
    ELSE IF apiKey.t # "string" THEN Throw
    ELSE IF trim(apiKey.v) = <<>> THEN Return("API key is missing")
    ELSE Return(NoError)

validateModel(model) ==
    IF ~Truthy(model) THEN Return("model name is missing")
    ELSE IF model.t # "string" THEN Throw
    ELSE IF trim(model.v) = <<>> THEN Return("model name is missing")
    ELSE Return(NoError)

(***************************************************************************)
(* The transport.  An awaited request settles with a 2xx reply, with an    *)
(* HTTP error status, or with a connection error.  A 2xx body holds the    *)
(* text where the adapter looks for it ("text"), lacks the container the   *)
(* adapter indexes ("missing": no choices / message / content / output),   *)
(* or holds a number where the text should be ("nonString").               *)
(***************************************************************************)
REQUEST_TIMEOUT_MS == 30000
REPLICATE_TIMEOUT_MS == 60000

ReplyTexts == StringsUpTo({" ", "a"}, MaxTextLen)

Outcome(kind, status, code, shape, text) ==
    [kind |-> kind, status |-> status, code |-> code, shape |-> shape, text |-> text]

OkOutcomes == {Outcome("ok", 200, "", "text", x) : x \in ReplyTexts}
              \cup {Outcome("ok", 200, "", sh, <<>>) : sh \in {"missing", "nonString"}}

HttpErrorOutcomes == {Outcome("http", st, "ERR_BAD_RESPONSE", "", <<>>) :
                         st \in {400, 401, 403, 404, 429, 500, 503}}

ConnectionOutcomes == {Outcome("neterr", 0, c, "", <<>>) : c \in {"ECONNREFUSED", "ENOTFOUND"}}

\* What axios rejects with when the request's timeout option expires.
TimeoutOutcome == Outcome("neterr", 0, "ECONNABORTED", "", <<>>)

\* The TypeError raised inside an adapter's try block while reading a body.
BodyTypeError == Outcome("TypeError", 0, "", "", <<>>)

Outcomes == OkOutcomes \cup HttpErrorOutcomes \cup ConnectionOutcomes \cup {TimeoutOutcome}

\* `a.b?.c?.trim() || ""` over a 2xx body; optional is TRUE when the adapter
\* reaches the container through `?.`.
ExtractText(o, optional) ==
    CASE o.shape = "text" -> Return(trim(o.text))
      [] o.shape = "missing" -> IF optional THEN Return(<<>>) ELSE Throw
      [] OTHER -> Throw

\* An endpoint and the part of its path that comes from the configuration;
\* the template `${baseUrl}${route}` is the pair <<baseUrl, route>>.
Url(base, path) == [base |-> base, path |-> path]

\* The request an adapter hands to its HTTP client; auth is the credential
\* in its Authorization / x-api-key header (or the key the SDK client holds).
Request(adapter, url, model, systemPrompt, userPrompt, timeout, auth) ==
    [adapter |-> adapter, url |-> url, model |-> model,
     systemPrompt |-> systemPrompt, userPrompt |-> userPrompt, timeout |-> timeout,
     auth |-> auth]


\* The tail without the `if (!result)` test.
ResultOrEmpty_noCheck(provider, text, model) == createSuccessResponse(provider, text, model)

\* The tail every adapter shares after its try block produced a text or threw:
\* `if (!result) return createErrorResponse(...)` then the success response.
ResultOrEmpty(provider, text, model) ==
    IF text = <<>> THEN createErrorResponse(provider, "No response content received", JSUndef)
    ELSE createSuccessResponse(provider, text, model)

(***************************************************************************)
(* callGroq.  The Groq client is built from the key alone; no timeout is   *)
(* passed to the client or to create().                                    *)
(***************************************************************************)
callGroq(systemPrompt, userPrompt, model, apiKey) ==
    LET apiKeyError == validateApiKey(apiKey)
        modelError == validateModel(model)
    IN  IF apiKeyError.tag = "throw" THEN Throw
        ELSE IF apiKeyError.val # NoError
             THEN Return(createErrorResponse("Groq", apiKeyError.val, JSUndef))
        ELSE IF modelError.tag = "throw" THEN Throw
        ELSE IF modelError.val # NoError
             THEN Return(createErrorResponse("Groq", modelError.val, JSUndef))
        ELSE Await(Request("Groq", Url("groq-sdk:chat.completions.create", <<>>), model,
                           systemPrompt, userPrompt, {}, apiKey))

callGroq_catch(err) == createErrorResponse("Groq", "API error", JSUndef)

callGroq_settle(model, o) ==
    IF o.kind = "ok"
    THEN LET r == ExtractText(o, FALSE)
         IN IF r.tag = "throw" THEN callGroq_catch(BodyTypeError)
            ELSE ResultOrEmpty("Groq", r.val, model)
    ELSE callGroq_catch(o)

(***************************************************************************)
(* callOllama                                                              *)
(***************************************************************************)
callOllama(systemPrompt, userPrompt, model) ==
    LET baseUrl == "http://localhost:11434"  \* process.env.OLLAMA_BASE_URL is not set
        modelError == validateModel(model)
    IN  IF modelError.tag = "throw" THEN Throw
        ELSE IF modelError.val # NoError
             THEN Return(createErrorResponse("Ollama", modelError.val, JSUndef))
        ELSE Await(Request("Ollama", Url(<<baseUrl, "/api/chat">>, <<>>), model,
                           systemPrompt, userPrompt, {REQUEST_TIMEOUT_MS}, JSUndef))

callOllama_catch(err) ==
    IF err.code = "ECONNREFUSED"
    THEN createErrorResponse("Ollama", "Cannot connect to Ollama server", JSUndef)
    ELSE createErrorResponse("Ollama", "API error", JSUndef)

callOllama_settle(model, o) ==
    IF o.kind = "ok"
    THEN LET r == ExtractText(o, TRUE)
         IN IF r.tag = "throw" THEN callOllama_catch(BodyTypeError)
            ELSE ResultOrEmpty("Ollama", r.val, model)
    ELSE callOllama_catch(o)

(***************************************************************************)
(* callCustomServer.  The token is read from the store; `!token` is the    *)
(* only check, the token is not trimmed.                                   *)
(***************************************************************************)
callCustomServer(systemPrompt, userPrompt, file) ==
    LET serverUrl == "http://localhost:3000"  \* process.env.CUSTOM_SERVER_URL is not set
        token == getConfigValue_jwt(file)
    IN  IF token.res.tag = "throw" THEN [file |-> token.file, res |-> Throw]
        ELSE IF ~Truthy(token.res.val)
             THEN [file |-> token.file,
                   res |-> Return(createErrorResponse("CustomServer", "JWT token is missing", JSUndef))]
        ELSE [file |-> token.file,
              res |-> Await(Request("CustomServer", Url(<<serverUrl, "/api/askai">>, <<>>), JSUndef,
                                    systemPrompt, userPrompt, {REQUEST_TIMEOUT_MS}, token.res.val))]

callCustomServer_catch(err) ==
    IF err.status = 401
    THEN createErrorResponse("CustomServer", "Authentication failed", JSUndef)
    ELSE IF err.status = 403
    THEN createErrorResponse("CustomServer", "Access forbidden", JSUndef)
    ELSE createErrorResponse("CustomServer", "API error", JSUndef)

callCustomServer_settle(model, o) ==
    IF o.kind = "ok"
    THEN LET r == ExtractText(o, TRUE)
         IN IF r.tag = "throw" THEN callCustomServer_catch(BodyTypeError)
            ELSE ResultOrEmpty("CustomServer", r.val, JSUndef)
    ELSE callCustomServer_catch(o)

(***************************************************************************)
(* callOpenAI                                                               *)
(***************************************************************************)
callOpenAI(systemPrompt, userPrompt, model, apiKey) ==
    LET apiKeyError == validateApiKey(apiKey)
        modelError == validateModel(model)
    IN  IF apiKeyError.tag = "throw" THEN Throw
        ELSE IF apiKeyError.val # NoError
             THEN Return(createErrorResponse("OpenAI", apiKeyError.val, JSUndef))
        ELSE IF modelError.tag = "throw" THEN Throw
        ELSE IF modelError.val # NoError
             THEN Return(createErrorResponse("OpenAI", modelError.val, JSUndef))
        ELSE Await(Request("OpenAI", Url("https://api.openai.com/v1/chat/completions", <<>>), model,
                           systemPrompt, userPrompt, {REQUEST_TIMEOUT_MS}, apiKey))

callOpenAI_catch(err) ==
    IF err.status = 401
    THEN createErrorResponse("OpenAI", "Invalid API key", JSUndef)
    ELSE IF err.status = 429
    THEN createErrorResponse("OpenAI", "rate limit exceeded", JSUndef)
    ELSE createErrorResponse("OpenAI", "API error", JSUndef)

callOpenAI_settle(model, o) ==
    IF o.kind = "ok"
    THEN LET r == ExtractText(o, FALSE)
         IN IF r.tag = "throw" THEN callOpenAI_catch(BodyTypeError)
            ELSE ResultOrEmpty("OpenAI", r.val, model)
    ELSE callOpenAI_catch(o)

(***************************************************************************)
(* callClaude                                                               *)
(***************************************************************************)
callClaude(systemPrompt, userPrompt, model, apiKey) ==
    LET apiKeyError == validateApiKey(apiKey)
        modelError == validateModel(model)
    IN  IF apiKeyError.tag = "throw" THEN Throw
        ELSE IF apiKeyError.val # NoError
             THEN Return(createErrorResponse("Claude", apiKeyError.val, JSUndef))
        ELSE IF modelError.tag = "throw" THEN Throw
        ELSE IF modelError.val # NoError
             THEN Return(createErrorResponse("Claude", modelError.val, JSUndef))
        ELSE Await(Request("Claude", Url("https://api.anthropic.com/v1/messages", <<>>), model,
                           systemPrompt, userPrompt, {REQUEST_TIMEOUT_MS}, apiKey))

callClaude_catch(err) ==
    IF err.status = 401
    THEN createErrorResponse("Claude", "Invalid API key", JSUndef)
    ELSE IF err.status = 429
    THEN createErrorResponse("Claude", "rate limit exceeded", JSUndef)
    ELSE createErrorResponse("Claude", "API error", JSUndef)

callClaude_settle(model, o) ==
    IF o.kind = "ok"
    THEN LET r == ExtractText(o, TRUE)
         IN IF r.tag = "throw" THEN callClaude_catch(BodyTypeError)
            ELSE ResultOrEmpty("Claude", r.val, model)
    ELSE callClaude_catch(o)

(***************************************************************************)
(* callOpenRouter                                                           *)
(***************************************************************************)
\* No validateModel here: the model is put in the payload only when it is
\* a non-blank string, and the request is sent either way.
callOpenRouter(systemPrompt, userPrompt, model, apiKey) ==
    LET apiKeyError == validateApiKey(apiKey)
        payloadModel == IF Truthy(model) /\ trim(model.v) # <<>> THEN model ELSE JSUndef
    IN  IF apiKeyError.tag = "throw" THEN Throw
        ELSE IF apiKeyError.val # NoError
             THEN Return(createErrorResponse("OpenRouter", apiKeyError.val, JSUndef))
        ELSE Await(Request("OpenRouter", Url("https://openrouter.ai/api/v1/chat/completions", <<>>), payloadModel,
                           systemPrompt, userPrompt, {REQUEST_TIMEOUT_MS}, apiKey))

callOpenRouter_catch(err) ==
    IF err.status = 401
    THEN createErrorResponse("OpenRouter", "Invalid API key", JSUndef)
    ELSE IF err.status = 429
    THEN createErrorResponse("OpenRouter", "rate limit exceeded", JSUndef)
    ELSE createErrorResponse("OpenRouter", "API error", JSUndef)

callOpenRouter_settle(model, o) ==
    IF o.kind = "ok"
    THEN LET r == ExtractText(o, TRUE)
         IN IF r.tag = "throw" THEN callOpenRouter_catch(BodyTypeError)
            ELSE ResultOrEmpty("OpenRouter", r.val, model)
    ELSE callOpenRouter_catch(o)

(***************************************************************************)
(* callTogether                                                             *)
(***************************************************************************)
callTogether(systemPrompt, userPrompt, model, apiKey) ==
    LET apiKeyError == validateApiKey(apiKey)
        modelError == validateModel(model)
    IN  IF apiKeyError.tag = "throw" THEN Throw
        ELSE IF apiKeyError.val # NoError
             THEN Return(createErrorResponse("Together", apiKeyError.val, JSUndef))
        ELSE IF modelError.tag = "throw" THEN Throw
        ELSE IF modelError.val # NoError
             THEN Return(createErrorResponse("Together", modelError.val, JSUndef))
        ELSE Await(Request("Together", Url("https://api.together.xyz/v1/chat/completions", <<>>), model,
                           systemPrompt, userPrompt, {REQUEST_TIMEOUT_MS}, apiKey))

callTogether_catch(err) ==
    IF err.status = 401
    THEN createErrorResponse("Together", "Invalid API key", JSUndef)
    ELSE IF err.status = 429
    THEN createErrorResponse("Together", "rate limit exceeded", JSUndef)
    ELSE createErrorResponse("Together", "API error", JSUndef)

callTogether_settle(model, o) ==
    IF o.kind = "ok"
    THEN LET r == ExtractText(o, TRUE)
         IN IF r.tag = "throw" THEN callTogether_catch(BodyTypeError)
            ELSE ResultOrEmpty("Together", r.val, model)
    ELSE callTogether_catch(o)

(***************************************************************************)
(* callHuggingFace                                                          *)
(***************************************************************************)
\* No validateModel here: the model is put in the payload only when it is
\* a non-blank string, and the request is sent either way.
callHuggingFace(systemPrompt, userPrompt, model, apiKey) ==
    LET apiKeyError == validateApiKey(apiKey)
        payloadModel == IF Truthy(model) /\ trim(model.v) # <<>> THEN model ELSE JSUndef
    IN  IF apiKeyError.tag = "throw" THEN Throw
        ELSE IF apiKeyError.val # NoError
             THEN Return(createErrorResponse("HuggingFace", apiKeyError.val, JSUndef))
        ELSE Await(Request("HuggingFace", Url("https://api-inference.huggingface.co/v1/chat/completions", <<>>), payloadModel,
                           systemPrompt, userPrompt, {REQUEST_TIMEOUT_MS}, apiKey))

callHuggingFace_catch(err) ==
    IF err.status = 401
    THEN createErrorResponse("HuggingFace", "Invalid API key", JSUndef)
    ELSE IF err.status = 503
    THEN createErrorResponse("HuggingFace", "model is currently loading", JSUndef)
    ELSE createErrorResponse("HuggingFace", "API error", JSUndef)

callHuggingFace_settle(model, o) ==
    IF o.kind = "ok"
    THEN LET r == ExtractText(o, TRUE)
         IN IF r.tag = "throw" THEN callHuggingFace_catch(BodyTypeError)
            ELSE ResultOrEmpty("HuggingFace", r.val, model)
    ELSE callHuggingFace_catch(o)

(***************************************************************************)
(* callReplicate                                                           *)
(***************************************************************************)
\* The part of s before the first c (all of s when c does not occur).
RECURSIVE upTo(_, _)
upTo(s, c) == IF s = <<>> \/ Head(s) = c THEN <<>> ELSE <<Head(s)>> \o upTo(Tail(s), c)

\* The part of s after the first c.
RECURSIVE after(_, _)
after(s, c) == IF s = <<>> THEN <<>> ELSE IF Head(s) = c THEN Tail(s) ELSE after(Tail(s), c)

\* const [modelPath, version] = modelVersion.split(':')
splitModelVersion(s) == [modelPath |-> upTo(s, ":"), version |-> upTo(after(s, ":"), ":")]

callReplicate(systemPrompt, userPrompt, modelVersion, apiKey) ==
    LET apiKeyError == validateApiKey(apiKey)
        modelError == validateModel(modelVersion)
    IN  IF apiKeyError.tag = "throw" THEN Throw
        ELSE IF apiKeyError.val # NoError
             THEN Return(createErrorResponse("Replicate", apiKeyError.val, JSUndef))
        ELSE IF modelError.tag = "throw" THEN Throw
        ELSE IF modelError.val # NoError
             THEN Return(createErrorResponse("Replicate", modelError.val, JSUndef))
        ELSE IF ~includes(modelVersion.v, ":")
             THEN Return(createErrorResponse("Replicate", "Invalid model version format", JSUndef))
        ELSE LET parts == splitModelVersion(modelVersion.v)
             IN Await(Request("Replicate",
                              Url("https://api.replicate.com/v1/models/*/predictions", parts.modelPath),
                              Str(parts.version), systemPrompt, userPrompt,
                              {REPLICATE_TIMEOUT_MS}, apiKey))

callReplicate_catch(err) ==
    IF err.status = 401
    THEN createErrorResponse("Replicate", "Invalid API key", JSUndef)
    ELSE IF err.status = 404
    THEN createErrorResponse("Replicate", "Model not found", JSUndef)
    ELSE createErrorResponse("Replicate", "API error", JSUndef)

callReplicate_settle(modelVersion, o) ==
    IF o.kind = "ok"
    THEN LET r == ExtractText(o, TRUE)
         IN IF r.tag = "throw" THEN callReplicate_catch(BodyTypeError)
            ELSE ResultOrEmpty("Replicate", r.val, modelVersion)
    ELSE callReplicate_catch(o)

(***************************************************************************)
(* callDeepInfra                                                            *)
(***************************************************************************)
callDeepInfra(systemPrompt, userPrompt, model, apiKey) ==
    LET apiKeyError == validateApiKey(apiKey)
        modelError == validateModel(model)
    IN  IF apiKeyError.tag = "throw" THEN Throw
        ELSE IF apiKeyError.val # NoError
             THEN Return(createErrorResponse("DeepInfra", apiKeyError.val, JSUndef))
        ELSE IF modelError.tag = "throw" THEN Throw
        ELSE IF modelError.val # NoError
             THEN Return(createErrorResponse("DeepInfra", modelError.val, JSUndef))
        ELSE Await(Request("DeepInfra", Url("https://api.deepinfra.com/v1/openai/chat/completions", <<>>), model,
                           systemPrompt, userPrompt, {REQUEST_TIMEOUT_MS}, apiKey))

callDeepInfra_catch(err) ==
    IF err.status = 401
    THEN createErrorResponse("DeepInfra", "Invalid API key", JSUndef)
    ELSE IF err.status = 429
    THEN createErrorResponse("DeepInfra", "rate limit exceeded", JSUndef)
    ELSE createErrorResponse("DeepInfra", "API error", JSUndef)

callDeepInfra_settle(model, o) ==
    IF o.kind = "ok"
    THEN LET r == ExtractText(o, TRUE)
         IN IF r.tag = "throw" THEN callDeepInfra_catch(BodyTypeError)
            ELSE ResultOrEmpty("DeepInfra", r.val, model)
    ELSE callDeepInfra_catch(o)

(***************************************************************************)
(* AskAi                                                                   *)
(***************************************************************************)
SystemPromptValues == {JSUndef, Str(<<>>), Str(<<" ">>), Str(<<"s">>)}
UserPromptValues == {JSUndef} \cup {Str(s) : s \in StringsUpTo({" ", "a"}, MaxPromptLen)}

\* `!prompt || prompt.trim() === ''`
PromptMissing(prompt) == ~Truthy(prompt) \/ trim(prompt.v) = <<>>

\* The switch with a default branch that picks the first adapter instead.
SelectAdapter_defaultGroq(provider) ==
    CASE provider = "groq" -> "Groq"
      [] provider = "ollama" -> "Ollama"
      [] provider = "openai" -> "OpenAI"
      [] provider = "claude" -> "Claude"
      [] provider = "openrouterai" -> "OpenRouter"
      [] provider = "togetherai" -> "Together"
      [] provider = "huggingface" -> "HuggingFace"
      [] provider = "replicate" -> "Replicate"
      [] provider = "deepinfra" -> "DeepInfra"
      [] provider \in {"server", "", Unset} -> "CustomServer"
      [] OTHER -> "Groq"

\* `config.provider || "server"` and the switch over it: the adapter that runs.
SelectAdapter(provider) ==
    LET p == IF provider \in {Unset, ""} THEN "server" ELSE provider
    IN CASE p = "groq" -> "Groq"
         [] p = "ollama" -> "Ollama"
         [] p = "openai" -> "OpenAI"
         [] p = "claude" -> "Claude"
         [] p = "openrouterai" -> "OpenRouter"
         [] p = "togetherai" -> "Together"
         [] p = "huggingface" -> "HuggingFace"
         [] p = "replicate" -> "Replicate"
         [] p = "deepinfra" -> "DeepInfra"
         [] p = "server" -> "CustomServer"
         [] OTHER -> "CustomServer"

\* The call each case of the switch makes, up to the adapter's await.
InvokeAdapter(adapter, systemPrompt, userPrompt, model, apikey, file) ==
    LET keep(r) == [file |-> file, res |-> r]
    IN CASE adapter = "Groq" -> keep(callGroq(systemPrompt, userPrompt, model, apikey))
         [] adapter = "Ollama" -> keep(callOllama(systemPrompt, userPrompt, model))
         [] adapter = "OpenAI" -> keep(callOpenAI(systemPrompt, userPrompt, model, apikey))
         [] adapter = "Claude" -> keep(callClaude(systemPrompt, userPrompt, model, apikey))
         [] adapter = "OpenRouter" -> keep(callOpenRouter(systemPrompt, userPrompt, model, apikey))
         [] adapter = "Together" -> keep(callTogether(systemPrompt, userPrompt, model, apikey))
         [] adapter = "HuggingFace" -> keep(callHuggingFace(systemPrompt, userPrompt, model, apikey))
         [] adapter = "Replicate" -> keep(callReplicate(systemPrompt, userPrompt, model, apikey))
         [] adapter = "DeepInfra" -> keep(callDeepInfra(systemPrompt, userPrompt, model, apikey))
         [] OTHER -> callCustomServer(systemPrompt, userPrompt, file)

\* What the awaited adapter returns once its request has settled.
SettleAdapter(adapter, model, o) ==
    CASE adapter = "Groq" -> callGroq_settle(model, o)
      [] adapter = "Ollama" -> callOllama_settle(model, o)
      [] adapter = "OpenAI" -> callOpenAI_settle(model, o)
      [] adapter = "Claude" -> callClaude_settle(model, o)
      [] adapter = "OpenRouter" -> callOpenRouter_settle(model, o)
      [] adapter = "Together" -> callTogether_settle(model, o)
      [] adapter = "HuggingFace" -> callHuggingFace_settle(model, o)
      [] adapter = "Replicate" -> callReplicate_settle(model, o)
      [] adapter = "DeepInfra" -> callDeepInfra_settle(model, o)
      [] OTHER -> callCustomServer_settle(model, o)

NoAdapter == "<none>"

\* The outcome of AskAi's synchronous part: the file left on disk, the
\* adapter entered, the config model it was given, how many times the
\* store was read, and what the code did (return, throw, await).
Step(file, adapter, model, reads, res) ==
    [file |-> file, adapter |-> adapter, model |-> model, reads |-> reads, res |-> res]

\* The try block with the configuration read moved above the prompt checks.
AskAi_try_configFirst(systemPrompt, userPrompt, file) ==
    LET c == getConfig(file)
    IN IF c.res.tag = "throw" THEN Step(c.file, NoAdapter, JSUndef, 1, Throw)
       ELSE IF PromptMissing(systemPrompt)
       THEN Step(c.file, NoAdapter, JSUndef, 1,
                 Return(createErrorResponse("System", "System prompt is required", JSUndef)))
       ELSE IF PromptMissing(userPrompt)
       THEN Step(c.file, NoAdapter, JSUndef, 1,
                 Return(createErrorResponse("System", "User prompt is required", JSUndef)))
       ELSE LET config == c.res.val
                adapter == SelectAdapter(config.provider)
                r == InvokeAdapter(adapter, systemPrompt, userPrompt,
                                   config.model, config.apiKey, c.file)
            IN Step(r.file, adapter, config.model,
                    IF adapter = "CustomServer" THEN 2 ELSE 1, r.res)

\* The body of AskAi's try block.
AskAi_try(systemPrompt, userPrompt, file) ==
    IF PromptMissing(systemPrompt)
    THEN Step(file, NoAdapter, JSUndef, 0,
              Return(createErrorResponse("System", "System prompt is required", JSUndef)))
    ELSE IF PromptMissing(userPrompt)
    THEN Step(file, NoAdapter, JSUndef, 0,
              Return(createErrorResponse("System", "User prompt is required", JSUndef)))
    ELSE LET c == getConfig(file)
         IN IF c.res.tag = "throw" THEN Step(c.file, NoAdapter, JSUndef, 1, Throw)
            ELSE LET config == c.res.val
                     adapter == SelectAdapter(config.provider)
                     r == InvokeAdapter(adapter, systemPrompt, userPrompt,
                                        config.model, config.apiKey, c.file)
                 IN Step(r.file, adapter, config.model,
                         IF adapter = "CustomServer" THEN 2 ELSE 1, r.res)

\* AskAi without its catch clause: the exception leaves the function.
AskAi_noCatch(systemPrompt, userPrompt, file) == AskAi_try(systemPrompt, userPrompt, file)

\* try { ... } catch (error) { return createErrorResponse('System', ...) }
AskAi(systemPrompt, userPrompt, file) ==
    LET r == AskAi_try(systemPrompt, userPrompt, file)
    IN IF r.res.tag = "throw"
       THEN [r EXCEPT !.res = Return(createErrorResponse("System", "Unexpected error", JSUndef))]
       ELSE r

(***************************************************************************)
(* State                                                                   *)
(***************************************************************************)
(* Strings of the formatters.  A string is the sequence of its characters; *)
(* the operators below are the String and Array methods formatter.ts uses. *)
(***************************************************************************)
\* The position of the leftmost occurrence of sep in s, 0 when there is none.
indexOf(s, sep) ==
    LET hits == {i \in 1..(Len(s) - Len(sep) + 1) : SubSeq(s, i, i + Len(sep) - 1) = sep}
    IN IF hits = {} THEN 0 ELSE CHOOSE i \in hits : \A j \in hits : i <= j

\* String.prototype.split(sep) for a non-empty separator: every occurrence
\* splits, scanning from the left; a string without sep gives itself.
RECURSIVE split(_, _)
split(s, sep) ==
    LET i == indexOf(s, sep)
    IN IF i = 0 THEN <<s>>
       ELSE <<SubSeq(s, 1, i - 1)>> \o split(SubSeq(s, i + Len(sep), Len(s)), sep)

\* Array.prototype.join(sep)
RECURSIVE join(_, _)
join(parts, sep) ==
    IF parts = <<>> THEN <<>>
    ELSE IF Len(parts) = 1 THEN parts[1]
    ELSE parts[1] \o sep \o join(Tail(parts), sep)

\* String.prototype.padEnd(n): spaces are appended up to length n.
padEnd(s, n) == IF Len(s) >= n THEN s ELSE s \o [i \in 1..(n - Len(s)) |-> " "]

\* Math.max(...xs) for at least one argument.  (With none it is -Infinity,
\* which the formatters compute and never use: they map over no entries.)
MathMax(xs) == CHOOSE m \in {xs[i] : i \in 1..Len(xs)} : \A i \in 1..Len(xs) : xs[i] <= m

\* The decimal digits of a positive integer, as `${n}` writes them.
RECURSIVE toDecimal(_)
toDecimal(n) ==
    LET digit == <<"0", "1", "2", "3", "4", "5", "6", "7", "8", "9">>[(n % 10) + 1]
    IN IF n < 10 THEN <<digit>> ELSE toDecimal(n \div 10) \o <<digit>>

\* chalk.<style>(text): the text wrapped in the style's escape codes.  A
\* styled string is the sequence of its segments; text outside any chalk call
\* has the style "none".
chalk(style, text) == <<[style |-> style, text |-> text]>>
unstyled(text) == chalk("none", text)

\* stripAnsi: the characters left when the escape codes are removed.
RECURSIVE stripAnsi(_)
stripAnsi(styled) ==
    IF styled = <<>> THEN <<>> ELSE Head(styled).text \o stripAnsi(Tail(styled))

FIELD_SEPARATOR == <<"|", "|", "|">>
RECORD_SEPARATOR == <<"-", "-", "-">>
LINE_BREAK == <<"\n">>

(***************************************************************************)
(* formatter.ts.  The seven label/content formatters run the same three    *)
(* statements with their own colours and their own plain-line layout.      *)
(***************************************************************************)
\* The entries filtered on their label alone.
parseEntries_labelOnly(response) ==
    LET chunks == split(response, RECORD_SEPARATOR)
        parts(k) == LET ps == split(chunks[k], FIELD_SEPARATOR)
                    IN [i \in 1..Len(ps) |-> trim(ps[i])]
        keep(ps) == Len(ps) >= 2 /\ ps[1] # <<>>
    IN SelectSeq([k \in 1..Len(chunks) |-> parts(k)], keep)

\* The entries with the parts of a chunk left untrimmed.
parseEntries_noTrim(response) ==
    LET chunks == split(response, RECORD_SEPARATOR)
        keep(ps) == Len(ps) >= 2 /\ ps[1] # <<>> /\ ps[2] # <<>>
    IN SelectSeq([k \in 1..Len(chunks) |-> split(chunks[k], FIELD_SEPARATOR)], keep)

\* response.split('---').map(entry => entry.split('|||').map(str => str.trim()))
\*         .filter(([a, b]) => a && b)
\* The destructuring takes the first two parts of a chunk; a missing second
\* part is undefined, which the filter rejects like the empty string.
parseEntries(response) ==
    LET chunks == split(response, RECORD_SEPARATOR)
        parts(k) == LET ps == split(chunks[k], FIELD_SEPARATOR)
                    IN [i \in 1..Len(ps) |-> trim(ps[i])]
        keep(ps) == Len(ps) >= 2 /\ ps[1] # <<>> /\ ps[2] # <<>>
        all == [k \in 1..Len(chunks) |-> parts(k)]
    IN SelectSeq(all, keep)

\* The display with every label padded by two spaces of its own.
renderEntries_ownWidth(entries, labelStyle, contentStyle) ==
    LET line(i) == chalk(labelStyle, padEnd(entries[i][1], Len(entries[i][1]) + 2))
                   \o chalk(contentStyle, entries[i][2])
        RECURSIVE lines(_)
        lines(i) == IF i > Len(entries) THEN <<>>
                    ELSE IF i = Len(entries) THEN line(i)
                    ELSE line(i) \o unstyled(LINE_BREAK) \o lines(i + 1)
    IN lines(1)

\* entries.map(([a, b]) => `${chalk.X(a.padEnd(maxLen + 2))}${chalk.Y(b)}`).join('\n')
renderEntries(entries, labelStyle, contentStyle) ==
    LET maxLen == MathMax([i \in 1..Len(entries) |-> Len(entries[i][1])])
        line(i) == chalk(labelStyle, padEnd(entries[i][1], maxLen + 2))
                   \o chalk(contentStyle, entries[i][2])
        RECURSIVE lines(_)
        lines(i) == IF i > Len(entries) THEN <<>>
                    ELSE IF i = Len(entries) THEN line(i)
                    ELSE line(i) \o unstyled(LINE_BREAK) \o lines(i + 1)
    IN lines(1)

\* entries.map(([a, b]) => `${a}<sep>${b}`).join('\n')
rawEntries(entries, sep) ==
    join([i \in 1..Len(entries) |-> entries[i][1] \o sep \o entries[i][2]], LINE_BREAK)

FormatterOutput(rendered, raw) == [rendered |-> rendered, raw |-> raw]

DASH == <<" ", "-", " ">>
COLON == <<":", " ">>

\* The plain output keeps the commands only: entries.map(([_, cmd]) => cmd).
convertFormatter(response) ==
    LET entries == parseEntries(response)
    IN FormatterOutput(renderEntries(entries, "magenta", "white"),
                       join([i \in 1..Len(entries) |-> entries[i][2]], LINE_BREAK))

examplesFormatter(response) ==
    LET entries == parseEntries(response)
    IN FormatterOutput(renderEntries(entries, "yellow", "gray"), rawEntries(entries, DASH))

errorExplainFormatter(response) ==
    LET entries == parseEntries(response)
    IN FormatterOutput(renderEntries(entries, "red.bold", "white"), rawEntries(entries, COLON))

explainFormatter(response) ==
    LET entries == parseEntries(response)
    IN FormatterOutput(renderEntries(entries, "green", "gray"), rawEntries(entries, COLON))

fixFormatter(response) ==
    LET entries == parseEntries(response)
    IN FormatterOutput(renderEntries(entries, "green", "gray"), rawEntries(entries, DASH))

\* The generate formatter numbering its lines with the array index.
generateFormatter_fromZero(input) ==
    LET ps == split(input, <<",">>)
        commands == SelectSeq([i \in 1..Len(ps) |-> trim(ps[i])], LAMBDA c : c # <<>>)
        line(i) == chalk("green", toDecimal(i - 1) \o <<".">>) \o unstyled(<<" ">>)
                   \o chalk("cyan", commands[i])
        RECURSIVE lines(_)
        lines(i) == IF i > Len(commands) THEN <<>>
                    ELSE IF i = Len(commands) THEN line(i)
                    ELSE line(i) \o unstyled(LINE_BREAK) \o lines(i + 1)
    IN FormatterOutput(lines(1), join(commands, LINE_BREAK))

\* input.split(",").map(cmd => cmd.trim()).filter(Boolean), numbered from 1.
generateFormatter(input) ==
    LET ps == split(input, <<",">>)
        commands == SelectSeq([i \in 1..Len(ps) |-> trim(ps[i])], LAMBDA c : c # <<>>)
        line(i) == chalk("green", toDecimal(i) \o <<".">>) \o unstyled(<<" ">>)
                   \o chalk("cyan", commands[i])
        RECURSIVE lines(_)
        lines(i) == IF i > Len(commands) THEN <<>>
                    ELSE IF i = Len(commands) THEN line(i)
                    ELSE line(i) \o unstyled(LINE_BREAK) \o lines(i + 1)
    IN FormatterOutput(lines(1), join(commands, LINE_BREAK))

improveFormatter(response) ==
    LET entries == parseEntries(response)
    IN FormatterOutput(renderEntries(entries, "blue", "gray"), rawEntries(entries, DASH))

teachFormatter(response) ==
    LET entries == parseEntries(response)
    IN FormatterOutput(renderEntries(entries, "cyan", "white"), rawEntries(entries, COLON))

(***************************************************************************)
(* The CLI's error display: the text handed to showErrorBox.  The message  *)
(* comes first; a "Provider:" line and a "Model:" line follow, each only   *)
(* when its argument is truthy.                                            *)
(***************************************************************************)
handleError(errorMessage, provider, model, clipboardWorks) ==
    [message  |-> errorMessage,
     provider |-> IF provider # "" THEN <<provider>> ELSE <<>>,
     model    |-> IF Truthy(model) THEN <<model.v>> ELSE <<>>,
     \* the error box, then the copy of the bare message; a failing copy is
     \* caught and nothing is printed for it
     events   |-> <<"handleError", "showErrorBox", "clipboard.writeSync">>
                  \o (IF clipboardWorks THEN <<"showInfo">> ELSE <<>>),
     copied   |-> IF clipboardWorks THEN <<errorMessage>> ELSE <<>>]

(***************************************************************************)
(* A command: getInput, the AskAi call, and what executeAICommand does     *)
(* with each way the call can end.                                         *)
(***************************************************************************)
NO_CONTENT == "No response content received from the AI provider"

\* What the user supplies: the arguments of the command line (the shell has
\* split them), or a text typed at a prompt, which inquirer accepts only
\* when it is not blank.
\* The three entry paths: arguments on the command line; no (or blank)
\* arguments and the text typed at the command's own prompt; the menu with
\* the text typed at its prompt.
CommandLine(as) == [path |-> "args", args |-> as, typed |-> <<>>]
Entries ==
    LET InputTexts == {t \in StringsUpTo({" ", "a"}, MaxInputLen) : trim(t) # <<>>}
        ArgLists == UNION {[1..n -> {<<>>, <<"a">>, <<"a", " ", " ", "a">>}] : n \in 0..2}
    IN {CommandLine(as) : as \in {x \in ArgLists : trim(join(x, <<" ">>)) # <<>>}}
       \cup {[path |-> "prompt", args |-> as, typed |-> t] :
                as \in {x \in ArgLists : trim(join(x, <<" ">>)) = <<>>}, t \in InputTexts}
       \cup {[path |-> "menu", args |-> <<>>, typed |-> t] : t \in InputTexts}

\* String.prototype.split(/\s+/): the pieces between runs of white space.
RECURSIVE splitWhitespace(_)
splitWhitespace(s) ==
    LET spaces == {i \in 1..Len(s) : IsSpace(s[i])}
        i == CHOOSE k \in spaces : \A l \in spaces : k <= l
    IN IF spaces = {} THEN <<s>>
       ELSE <<SubSeq(s, 1, i - 1)>> \o splitWhitespace(trimStart(SubSeq(s, i, Len(s))))

\* menuCommand: the text typed at the menu's prompt becomes the handler's
\* argument list.
menuCommand(typed) == splitWhitespace(trim(typed))

\* getInput(args, promptMessage): the joined arguments, or else the text
\* typed at the prompt; trimmed.
getInput(as, typed) ==
    LET inputText == trim(join(as, <<" ">>))
    IN IF inputText # <<>> THEN trim(inputText) ELSE trim(typed)

\* How AskAi ends for the command: it resolves to a response (kind
\* "response") whose error is set or not and whose text is a string or, for
\* shape "number", something without a trim method; or it rejects (kind
\* "throw") with an error that carries a response, carries the fields
\* itself, or carries only a message.
AskOutcome(kind, shape, error, provider, model) ==
    [kind |-> kind, shape |-> shape, error |-> error, provider |-> provider, model |-> model]
Success == AskOutcome("response", "string", NoError, "OpenAI", Str(<<"m">>))
AskOutcomes ==
    {Success, AskOutcome("response", "number", NoError, "OpenAI", Str(<<"m">>))}
    \cup {AskOutcome("response", "string", e, "OpenAI", m) :
             e \in {"API key is missing", "Invalid API key"}, m \in {JSUndef, Str(<<"m">>)}}
    \cup {AskOutcome("throw", sh, "Unexpected error", pr, JSUndef) :
             sh \in {"response", "fields"}, pr \in {"", "System"}}
    \cup {AskOutcome("throw", "message", "ECONNRESET", "", JSUndef)}

\* handleOutput without the inner try/catch around the copy: a failing copy
\* reaches the outer catch clause, which prints an error.
handleOutput_noCatch(formatted, works) ==
    [shown |-> "output", error |-> NoError,
     rendered |-> formatted.rendered, raw |-> formatted.raw,
     box |-> <<>>,
     events |-> <<"handleOutput", "showOutput", "clipboard.writeSync">>
                \o (IF works THEN <<"showSuccess">> ELSE <<"showError">>),
     copied |-> IF works THEN <<formatted.raw>> ELSE <<>>]

\* handleOutput(formatted, title): the rendered text goes to the output box,
\* then the raw text, stripped of escape codes, to the clipboard; a failing
\* copy is caught and answered with a warning.
handleOutput(formatted, works) ==
    [shown |-> "output", error |-> NoError,
     rendered |-> formatted.rendered, raw |-> formatted.raw,
     box |-> <<>>,
     events |-> <<"handleOutput", "showOutput", "clipboard.writeSync">>
                \o (IF works THEN <<"showSuccess">> ELSE <<"showWarning">>),
     copied |-> IF works THEN <<formatted.raw>> ELSE <<>>]

\* What a command shows when it reports an error.
ErrorShown(box) ==
    [shown |-> "error", error |-> box.message, rendered |-> <<>>, raw |-> <<>>,
     box |-> <<[message |-> box.message, provider |-> box.provider, model |-> box.model]>>,
     events |-> box.events, copied |-> box.copied]

\* executeAICommand without the `return` after reporting a response's error:
\* the reply is formatted and shown as well.
executeAICommand_noReturn(outcome, text, formatted, works) ==
    LET started == <<"spinner.start", "AskAi">>
        stop == <<"spinner.stop">>
        shown == IF outcome.kind = "response" /\ outcome.error # NoError
                 THEN LET box == handleError(outcome.error, outcome.provider,
                                             outcome.model, works)
                          out == handleOutput(formatted, works)
                      IN [out EXCEPT !.events = box.events \o <<"formatter">> \o @]
                 ELSE ErrorShown(handleError("Execution Failed", "", JSUndef, works))
    IN [shown EXCEPT !.events = started \o stop \o @]

\* executeAICommand from the spinner's start on; outcome is how AskAi ends,
\* text the reply text of a response without error, formatted the value of
\* formatter(text), which only the last branch computes.
executeAICommand(outcome, text, formatted, works) ==
    LET started == <<"spinner.start", "AskAi">>
        then(stops, shown) == [shown EXCEPT !.events = started \o stops \o @]
        stop == <<"spinner.stop">>
    IN IF outcome.kind = "throw"
       THEN \* catch: spinner.stop(), then the error's own fields or its message
            IF outcome.shape \in {"response", "fields"}
            THEN then(stop, ErrorShown(handleError(outcome.error, outcome.provider,
                                                    outcome.model, works)))
            ELSE then(stop, ErrorShown(handleError("Execution Failed", "", JSUndef, works)))
       ELSE IF outcome.error # NoError
       THEN then(stop, ErrorShown(handleError(outcome.error, outcome.provider,
                                               outcome.model, works)))
       ELSE IF outcome.shape = "number"
       THEN \* responseText.trim is not a function: the catch clause runs
            then(stop \o stop, ErrorShown(handleError("Execution Failed", "", JSUndef, works)))
       ELSE IF text = <<>> \/ trim(text) = <<>>
       THEN then(stop, ErrorShown(handleError(NO_CONTENT, outcome.provider,
                                               outcome.model, works)))
       ELSE then(stop \o <<"formatter">>, handleOutput(formatted, works))

\* A command run: the command's name, the user prompt it sent to AskAi, and
\* what executeAICommand did.
Run(name, e, outcome, text, formatted, works) ==
    [command |-> name,
     sent |-> getInput(IF e.path = "menu" THEN menuCommand(e.typed) ELSE e.args, e.typed)]
    @@ executeAICommand(outcome, text, formatted, works)

(***************************************************************************)
(* Device authentication: pollForToken asks the server for the token until *)
(* it gets one or gets an error other than authorization_pending.          *)
(***************************************************************************)
\* The replies to POST /device/token: a 2xx reply whose access_token is
\* absent, empty or a token; an error reply whose data.error is
\* authorization_pending or something else; no reply at all.
TokenReplies ==
    [kind : {"2xx"}, error : {""}, token : JwtValues]
    \cup [kind : {"error"}, error : {"authorization_pending", "access_denied"},
          token : {JSUndef}]
    \cup [kind : {"network"}, error : {""}, token : {JSUndef}]

\* No pollForToken running.
NotPolling == [pc |-> "idle", log |-> <<>>, last |-> <<>>, token |-> JSUndef]

\* One turn of the loop of pollForToken: the request and what follows its
\* reply.
pollForToken(p, reply) ==
    LET log == Append(p.log, "axios.post")
    IN IF reply.kind = "2xx"
       THEN IF Truthy(reply.token)
            THEN [pc |-> "returned", log |-> log, last |-> <<reply>>, token |-> reply.token]
            ELSE \* no access_token: the loop body ends and the loop goes round
                 [pc |-> "request", log |-> log, last |-> <<reply>>, token |-> JSUndef]
       ELSE IF reply.kind = "error" /\ reply.error = "authorization_pending"
       THEN [pc |-> "sleep", log |-> log, last |-> <<reply>>, token |-> JSUndef]
       ELSE [pc |-> "thrown", log |-> log, last |-> <<reply>>, token |-> JSUndef]

(***************************************************************************)
(* First-time setup: postinstall, needsSetup, validateConfig, the wizard   *)
(* runSetup and the wrapper withSetupCheck of every AI command.            *)
(***************************************************************************)
\* postinstall: the object it writes when config.json is missing.
createDefaultConfig(file) ==
    LET defaultConfig == [EmptyObject EXCEPT !.provider = "server",
                                             !.serverUrl = "http://localhost:3000"]
    IN IF file = NoFile THEN JsonFile(defaultConfig) ELSE file

\* needsSetup: no file, or a file whose content is falsy or does not parse.
needsSetup(file) ==
    IF file = NoFile THEN TRUE
    ELSE getConfig(file).res.tag = "throw"

\* validateConfig: the file it leaves behind and its verdict.
validateConfig(file) ==
    LET c == getConfig(file)
        config == c.res.val
    IN [file |-> c.file,
        res |-> IF c.res.tag = "throw" THEN FALSE
                ELSE IF config.provider \in {Unset, ""} THEN FALSE
                ELSE CASE config.provider = "server" ->
                              config.serverUrl \notin {Unset, ""} /\ Truthy(config.jwt)
                       [] config.provider \in {"openai", "groq", "anthropic"} ->
                              Truthy(config.apiKey)
                       [] config.provider = "ollama" ->
                              config.ollamaUrl \notin {Unset, ""}
                       [] OTHER -> FALSE]

\* updateConfig(newConfig): read, merge ({...config, ...newConfig}: the keys
\* of newConfig win), write back.
updateConfig(file, newConfig) ==
    LET c == getConfig(file)
    IN IF c.res.tag = "throw" THEN [file |-> c.file, res |-> Throw]
       ELSE [file |-> JsonFile(newConfig @@ c.res.val), res |-> Return("void")]

\* The providers the wizard offers.
providerChoices == {"server", "openai", "groq", "claude", "openrouterai", "togetherai",
                    "huggingface", "replicate", "deepinfra", "ollama"}

\* What the user and the outside world answer during one run of the wizard:
\* the answer to "Reconfigure?", the provider chosen, whether the provider's
\* step went through (the device was verified, the prompts were answered,
\* Ollama is installed and running) or threw, the model and the Ollama URL.
\* An answer that is never asked for is left at a fixed value.
WizardAnswers ==
    LET Answers == [reconfigure : BOOLEAN, provider : providerChoices, completes : BOOLEAN,
                    model : {Str(<<"m">>)}, ollamaUrl : {"http://localhost:11434", "http://10.0.0.2:11434"}]
    IN {a \in Answers :
          /\ ~a.reconfigure => (a.provider = "server" /\ ~a.completes)
          /\ ~(a.provider = "ollama" /\ a.completes) => a.ollamaUrl = "http://localhost:11434"}

\* handleServerAuth: the token pollForToken returned is stored with the
\* server URL.
handleServerAuth(file, a) ==
    LET c == getConfig(file)
        serverUrl == IF c.res.val.serverUrl \in {Unset, ""} THEN "CONFIG.BACKEND_URL"
                     ELSE c.res.val.serverUrl
        token == Str(<<"t">>)
        jwtSet == setConfigValue(c.file, "jwt", token)
        urlSet == setConfigValue(jwtSet.file, "serverUrl", serverUrl)
    IN IF c.res.tag = "throw" \/ ~a.completes THEN [file |-> c.file, res |-> Throw]
       ELSE [file |-> urlSet.file,
             res |-> Return([jwt |-> token, serverUrl |-> serverUrl])]

\* handleApiKeyInput: a key the prompt accepted and the model chosen.
handleApiKeyInput(file, a) ==
    IF ~a.completes THEN [file |-> file, res |-> Throw]
    ELSE [file |-> file, res |-> Return([apiKey |-> Str(<<"k">>), model |-> Str(<<"m">>)])]

\* handleOllamaSetup: the URL typed at the prompt and the model selected.
handleOllamaSetup(file, a) ==
    IF ~a.completes THEN [file |-> file, res |-> Throw]
    ELSE [file |-> file, res |-> Return([ollamaUrl |-> a.ollamaUrl, model |-> a.model])]

\* runSetup: the file it leaves behind, the provider chosen, the calls it
\* made, and how it ended: with the existing configuration kept, with the
\* wizard's configuration saved, or in process.exit(1).
runSetup(file, a) ==
    LET step == CASE a.provider = "server" -> handleServerAuth(file, a)
                  [] a.provider = "ollama" -> handleOllamaSetup(file, a)
                  [] OTHER -> handleApiKeyInput(file, a)
        config == step.res.val @@ [provider |-> a.provider]
        saved == updateConfig(step.file, config)
        begun == <<"showWelcome", "selectProvider", "providerStep">>
        \* from showWelcome on
        wizard ==
            IF step.res.tag = "throw"
            THEN [file |-> step.file, outcome |-> "failed", provider |-> a.provider,
                  events |-> begun \o <<"process.exit(1)">>]
            ELSE IF saved.res.tag = "throw"
            THEN [file |-> saved.file, outcome |-> "failed", provider |-> a.provider,
                  events |-> begun \o <<"updateConfig", "process.exit(1)">>]
            ELSE [file |-> saved.file, outcome |-> "saved", provider |-> a.provider,
                  events |-> begun \o <<"updateConfig", "showSummary">>]
    IN IF file # NoFile
       THEN IF getConfig(file).res.tag = "throw"
            THEN [file |-> file, outcome |-> "failed", provider |-> Unset,
                  events |-> <<"process.exit(1)">>]
            ELSE IF ~a.reconfigure
            THEN [file |-> file, outcome |-> "existing", provider |-> Unset,
                  events |-> <<"confirm">>]
            ELSE [wizard EXCEPT !.events = <<"confirm">> \o @]
       ELSE wizard

\* A CLI process: the command, whether needsSetup() was true when it
\* started, how its run of runSetup ended ("none" without one), the provider
\* chosen in the wizard, the calls it made, and its exit code once it exited.
Process(command, needed, setup, provider, events, exit) ==
    [command |-> command, needed |-> needed, setup |-> setup, provider |-> provider,
     events |-> events, exit |-> exit]
NoProcess == Process("", FALSE, "none", Unset, <<>>, <<>>)

\* withSetupCheck calling the command body whatever became of the setup.
withSetupCheck_bodyAnyway(command, file, a) ==
    IF needsSetup(file)
    THEN LET s == runSetup(file, a)
         IN [file |-> s.file,
             proc |-> Process(command, TRUE, s.outcome, s.provider,
                              <<"needsSetup", "showInfo", "runSetup">> \o s.events \o <<"fn">>,
                              <<>>)]
    ELSE [file |-> file,
          proc |-> Process(command, FALSE, "none", Unset, <<"needsSetup", "fn">>, <<>>)]

\* withSetupCheck(fn) up to the call of fn: the file it leaves behind and
\* the process, which has either exited or is about to run fn.
withSetupCheck(command, file, a) ==
    IF needsSetup(file)
    THEN LET s == runSetup(file, a)
         IN [file |-> s.file,
             proc |-> IF s.outcome = "failed"
                      THEN Process(command, TRUE, s.outcome, s.provider,
                                   <<"needsSetup", "showInfo", "runSetup">> \o s.events,
                                   <<1>>)
                      ELSE Process(command, TRUE, s.outcome, s.provider,
                                   <<"needsSetup", "showInfo", "runSetup">> \o s.events
                                       \o <<"fn">>,
                                   <<>>)]
    ELSE [file |-> file,
          proc |-> Process(command, FALSE, "none", Unset, <<"needsSetup", "fn">>, <<>>)]

(***************************************************************************)
(* The state: config.json, the running AskAi call, and a running command.  *)
(***************************************************************************)
VARIABLES
    configFile,   \* config.json
    pc,           \* "idle", "inflight" (AskAi awaits its adapter), "done"
    args,         \* the arguments of the running AskAi call
    adapter,      \* the adapter the running dispatch entered
    model,        \* the config model that adapter was called with
    request,      \* the request in flight
    calls,        \* the adapters that issued a request in this dispatch, in order
    configReads,  \* reads of the store made by this dispatch
    transport,    \* how the request settled
    result,       \* the AskAIResponse the promise resolved to
    thrown,       \* the promise rejected
    history,      \* "fresh"; "dispatched" once a dispatch has returned;
                  \* "rewritten" once the store was written after that
    responseText, \* the reply text executeAICommand got from AskAi
    display,      \* what the command then showed: the output box or the error box
    entry,        \* how the user entered the command, and the text supplied
    askOutcome,   \* how the command's AskAi call ends
    clipboardWorks, \* whether clipboard.writeSync succeeds on this machine
    poll,         \* the running pollForToken call
    proc          \* the CLI process that ran last

vars == <<configFile, pc, args, adapter, model, request, calls, configReads, transport, result,
          thrown, history, responseText, display, entry, askOutcome, clipboardWorks,
          poll, proc>>

\* The variables of the formatting step of a command.
formatVars == <<responseText, display, entry, askOutcome, clipboardWorks, poll, proc>>

\* request, transport and result hold at most one value: <<>> or <<x>>.
None == <<>>
Some(x) == <<x>>

Init ==
    /\ configFile \in ConfigFiles
    /\ pc = "idle"
    /\ args = None
    /\ adapter = NoAdapter
    /\ model = JSUndef
    /\ request = None
    /\ calls = <<>>
    /\ configReads = 0
    /\ transport = None
    /\ result = None
    /\ thrown = FALSE
    /\ history = "fresh"
    /\ responseText = <<>>
    /\ display = None
    /\ entry = CommandLine(<< <<"a">> >>)
    /\ askOutcome = Success
    /\ clipboardWorks = TRUE
    /\ poll = NotPolling
    /\ proc = NoProcess

\* A caller invokes AskAi; the code runs up to its first await or to its return.
AskAi_Call ==
    /\ pc = "idle"
    /\ \E systemPrompt \in SystemPromptValues, userPrompt \in UserPromptValues :
         LET r == AskAi(systemPrompt, userPrompt, configFile)
         IN /\ args' = Some([systemPrompt |-> systemPrompt, userPrompt |-> userPrompt])
            /\ configFile' = r.file
            /\ adapter' = r.adapter
            /\ model' = r.model
            /\ configReads' = r.reads
            /\ transport' = None
            /\ CASE r.res.tag = "await" ->
                      /\ pc' = "inflight"
                      /\ request' = Some(r.res.val)
                      /\ calls' = <<r.res.val.adapter>>
                      /\ result' = None
                      /\ thrown' = FALSE
                 [] r.res.tag = "return" ->
                      /\ pc' = "done"
                      /\ request' = None
                      /\ calls' = <<>>
                      /\ result' = Some(r.res.val)
                      /\ thrown' = FALSE
                 [] OTHER ->
                      /\ pc' = "done"
                      /\ request' = None
                      /\ calls' = <<>>
                      /\ result' = None
                      /\ thrown' = TRUE
            /\ UNCHANGED <<history, formatVars>>

\* The awaited request settles and the adapter returns its response.
Settle(o) ==
    /\ pc' = "done"
    /\ transport' = Some(o)
    /\ result' = Some(SettleAdapter(adapter, model, o))
    /\ request' = None
    /\ UNCHANGED <<configFile, args, adapter, model, calls, configReads, thrown, history,
                   formatVars>>

\* An adapter that sends the request again after a 429 or 5xx answer.
ProviderAnswers_retry ==
    /\ pc = "inflight"
    /\ \E o \in Outcomes \ {TimeoutOutcome} :
         IF o.kind = "http" /\ o.status \in {429, 500, 503} /\ Len(calls) < 2
         THEN /\ calls' = Append(calls, adapter)
              /\ UNCHANGED <<configFile, pc, args, adapter, model, request,
                             configReads, transport, result, thrown, history,
                             formatVars>>
         ELSE Settle(o)

\* The provider (or the network) answers the request in flight.
ProviderAnswers ==
    /\ pc = "inflight"
    /\ \E o \in Outcomes \ {TimeoutOutcome} : Settle(o)

\* The request's timeout option expires before any answer.
TimeoutExpires ==
    /\ pc = "inflight"
    /\ request[1].timeout # {}
    /\ Settle(TimeoutOutcome)

\* The caller has taken the response.
AskAi_Return ==
    /\ pc = "done"
    /\ pc' = "idle"
    /\ args' = None
    /\ adapter' = NoAdapter
    /\ model' = JSUndef
    /\ request' = None
    /\ calls' = <<>>
    /\ configReads' = 0
    /\ transport' = None
    /\ result' = None
    /\ thrown' = FALSE
    /\ history' = IF history = "fresh" THEN "dispatched" ELSE history
    /\ UNCHANGED <<configFile, formatVars>>

\* `config --set <key> <value>`: the value is the string typed on the command line.
handleConfigSet ==
    /\ pc = "idle"
    /\ \E key \in {"provider", "apiKey", "model", "jwt"} :
         \E value \in CASE key = "provider" -> ProviderValues \ {Unset}
                        [] key = "apiKey" -> {x \in ApiKeyValues : x.t = "string"}
                        [] key = "model" -> {x \in ModelValues : x.t = "string"}
                        [] OTHER -> {x \in JwtValues : x.t = "string"} :
            configFile' = setConfigValue(configFile, key, value).file
    /\ history' = IF history = "dispatched" THEN "rewritten" ELSE history
    /\ UNCHANGED <<pc, args, adapter, model, request, calls, configReads, transport, result,
                   thrown, formatVars>>

\* `config --delete`, confirmed.
handleConfigDelete ==
    /\ pc = "idle"
    /\ configFile' = deleteConfig(configFile)
    /\ history' = IF history = "dispatched" THEN "rewritten" ELSE history
    /\ UNCHANGED <<pc, args, adapter, model, request, calls, configReads, transport, result,
                   thrown, formatVars>>

Next ==
    \/ AskAi_Call
    \/ ProviderAnswers
    \/ TimeoutExpires
    \/ AskAi_Return
    \/ handleConfigSet
    \/ handleConfigDelete

Spec == Init /\ [][Next]_vars

(***************************************************************************)
(* The formatting step of a command: executeAICommand has the reply text   *)
(* of a successful AskAi call, refuses a blank one, and otherwise hands    *)
(* the text to the command's formatter and the result to handleOutput.     *)
(***************************************************************************)
\* Reply texts: chunks made of the two separators and a few fields around
\* them, joined by a separator line or by a bare separator.
Labels == { <<" ">>, <<"a">>, <<"b", "b", " ">>, <<",">> }
Contents == { <<>>,
              <<" ", "c", ",", "d">>,
              <<"c", " ", "-", "-", "-", " ", "d">>,
              <<"c", "\n", "d">>,
              <<"x", "|", "|", "|", "y">> }
Chunks == Labels \cup {l \o FIELD_SEPARATOR \o c : l \in Labels, c \in Contents}
Separators == {RECORD_SEPARATOR, LINE_BREAK \o RECORD_SEPARATOR \o LINE_BREAK}
RawTexts ==
    {<<>>} \cup {join(cs, sep) : cs \in UNION {[1..n -> Chunks] : n \in 1..MaxChunks},
                               sep \in Separators}

\* The gateway at rest, as every command finds it.
GatewayIdle ==
    /\ configFile = NoFile
    /\ pc = "idle"
    /\ args = None
    /\ adapter = NoAdapter
    /\ model = JSUndef
    /\ request = None
    /\ calls = <<>>
    /\ configReads = 0
    /\ transport = None
    /\ result = None
    /\ thrown = FALSE
    /\ history = "fresh"

\* A reply of AskAi is about to be formatted.
InitFmt ==
    /\ GatewayIdle
    /\ responseText \in RawTexts
    /\ display = None
    /\ entry = CommandLine(<< <<"a">> >>)
    /\ askOutcome = Success
    /\ clipboardWorks = TRUE
    /\ poll = NotPolling
    /\ proc = NoProcess

\* What a command leaves alone: the gateway's variables and the reply text.
callVars == <<configFile, pc, args, adapter, model, request, calls, configReads,
              transport, result, thrown, history, responseText, entry, askOutcome,
              clipboardWorks, poll, proc>>

\* Each command formats the reply with its own formatter and shows the result.
generateCommand ==
    /\ display = None
    /\ display' = Some(Run("generate", entry, askOutcome, responseText,
                            generateFormatter(responseText), clipboardWorks))
    /\ UNCHANGED callVars

explainCommand ==
    /\ display = None
    /\ display' = Some(Run("explain", entry, askOutcome, responseText,
                            explainFormatter(responseText), clipboardWorks))
    /\ UNCHANGED callVars

teachCommand ==
    /\ display = None
    /\ display' = Some(Run("teach", entry, askOutcome, responseText,
                            teachFormatter(responseText), clipboardWorks))
    /\ UNCHANGED callVars

examplesCommand ==
    /\ display = None
    /\ display' = Some(Run("examples", entry, askOutcome, responseText,
                            examplesFormatter(responseText), clipboardWorks))
    /\ UNCHANGED callVars

improveCommand ==
    /\ display = None
    /\ display' = Some(Run("improve", entry, askOutcome, responseText,
                            improveFormatter(responseText), clipboardWorks))
    /\ UNCHANGED callVars

convertCommand ==
    /\ display = None
    /\ display' = Some(Run("convert", entry, askOutcome, responseText,
                            convertFormatter(responseText), clipboardWorks))
    /\ UNCHANGED callVars

debugCommand ==
    /\ display = None
    /\ display' = Some(Run("debug", entry, askOutcome, responseText,
                            errorExplainFormatter(responseText), clipboardWorks))
    /\ UNCHANGED callVars

fixCommand ==
    /\ display = None
    /\ display' = Some(Run("fix", entry, askOutcome, responseText,
                            fixFormatter(responseText), clipboardWorks))
    /\ UNCHANGED callVars

NextFmt ==
    \/ generateCommand
    \/ explainCommand
    \/ teachCommand
    \/ examplesCommand
    \/ improveCommand
    \/ convertCommand
    \/ debugCommand
    \/ fixCommand

SpecFmt == InitFmt /\ [][NextFmt]_vars

\* A command is about to run.  The replies it is run on when the way it
\* was entered, the way AskAi ends and the clipboard vary: blank ones, one
\* without a field separator, complete records.
InitCmd ==
    /\ GatewayIdle
    /\ entry \in Entries
    /\ askOutcome \in AskOutcomes
    /\ clipboardWorks \in BOOLEAN
    /\ responseText \in IF askOutcome = Success
                         THEN {<<>>} \cup Labels
                                  \cup {<<"a">> \o FIELD_SEPARATOR \o c : c \in Contents}
                         ELSE {<<>>}
    /\ display = None
    /\ poll = NotPolling
    /\ proc = NoProcess

SpecCmd == InitCmd /\ [][NextFmt]_vars

(***************************************************************************)
(* pollForToken as a process: each request is answered by the server, and  *)
(* the pause after authorization_pending ends when its timer fires.        *)
(***************************************************************************)
\* handleServerAuth has called pollForToken(deviceCode).
InitAuth ==
    /\ GatewayIdle
    /\ responseText = <<>>
    /\ display = None
    /\ entry = CommandLine(<< <<"a">> >>)
    /\ askOutcome = Success
    /\ clipboardWorks = TRUE
    /\ poll = [NotPolling EXCEPT !.pc = "request"]
    /\ proc = NoProcess

\* The server (or the network) answers the token request.
TokenRequestSettles ==
    /\ poll.pc = "request"
    /\ Len(SelectSeq(poll.log, LAMBDA c : c = "axios.post")) < MaxPolls
    /\ \E reply \in TokenReplies : poll' = pollForToken(poll, reply)
    /\ UNCHANGED <<configFile, pc, args, adapter, model, request, calls, configReads,
                   transport, result, thrown, history, responseText, display, entry,
                   askOutcome, clipboardWorks, proc>>

\* The timer of the pause fires and the loop continues.
PauseEnds ==
    /\ poll.pc = "sleep"
    /\ poll' = [poll EXCEPT !.pc = "request", !.log = Append(@, "setTimeout(5000)")]
    /\ UNCHANGED <<configFile, pc, args, adapter, model, request, calls, configReads,
                   transport, result, thrown, history, responseText, display, entry,
                   askOutcome, clipboardWorks, proc>>

NextAuth ==
    \/ TokenRequestSettles
    \/ PauseEnds

SpecAuth == InitAuth /\ [][NextAuth]_vars

(***************************************************************************)
(* The CLI on one machine: postinstall, the config command and the AI      *)
(* commands run one after the other on the same config.json.               *)
(***************************************************************************)
\* What a config command leaves alone.
commandVars == <<pc, args, adapter, model, request, calls, configReads, transport, result,
                 thrown, responseText, display, entry, askOutcome, clipboardWorks, poll>>

\* A machine before the package is installed, or with a damaged config.json.
InitSetup ==
    /\ configFile \in {NoFile, Corrupt}
    /\ pc = "idle"
    /\ args = None
    /\ adapter = NoAdapter
    /\ model = JSUndef
    /\ request = None
    /\ calls = <<>>
    /\ configReads = 0
    /\ transport = None
    /\ result = None
    /\ thrown = FALSE
    /\ history = "fresh"
    /\ responseText = <<>>
    /\ display = None
    /\ entry = CommandLine(<< <<"a">> >>)
    /\ askOutcome = Success
    /\ clipboardWorks = TRUE
    /\ poll = NotPolling
    /\ proc = NoProcess

\* npm runs the postinstall script.
postinstall ==
    /\ pc = "idle"
    /\ configFile' = createDefaultConfig(configFile)
    /\ proc' = Process("postinstall", needsSetup(configFile), "none", Unset,
                       <<"createDefaultConfig">>, <<0>>)
    /\ UNCHANGED <<history, commandVars>>

\* `config --show`.
configCommand_show ==
    /\ pc = "idle"
    /\ LET c == getConfig(configFile)
       IN /\ configFile' = c.file
          /\ proc' = Process("config --show", needsSetup(configFile), "none", Unset,
                             <<"getConfig",
                               IF c.res.tag = "throw" THEN "showError" ELSE "showOutput">>,
                             <<0>>)
    /\ UNCHANGED <<history, commandVars>>

\* `config --get jwt`.
configCommand_get ==
    /\ pc = "idle"
    /\ LET c == getConfigValue_jwt(configFile)
       IN /\ configFile' = c.file
          /\ proc' = Process("config --get", needsSetup(configFile), "none", Unset,
                             <<"getConfigValue",
                               IF c.res.tag = "throw" THEN "showError"
                               ELSE IF c.res.val = JSUndef THEN "showWarning"
                               ELSE "console.log">>,
                             <<0>>)
    /\ UNCHANGED <<history, commandVars>>

\* `config --validate`.
configCommand_validate ==
    /\ pc = "idle"
    /\ LET v == validateConfig(configFile)
       IN /\ configFile' = v.file
          /\ proc' = Process("config --validate", needsSetup(configFile), "none", Unset,
                             <<"validateConfig",
                               IF v.res THEN "showSuccess" ELSE "showError">>,
                             <<0>>)
    /\ UNCHANGED <<history, commandVars>>

\* `config --set <key> <value>` for the provider, the token and the URLs.
configCommand_set ==
    /\ pc = "idle"
    /\ \E key \in {"provider", "jwt", "serverUrl", "ollamaUrl"} :
         \E value \in CASE key = "provider" -> {"server", "ollama"}
                        [] key = "jwt" -> {Str(<<"t">>)}
                        [] key = "serverUrl" -> {"http://localhost:3000", "https://cmdo.example.org"}
                        [] OTHER -> {"http://localhost:11434", "http://10.0.0.2:11434"} :
            LET c == setConfigValue(configFile, key, value)
            IN /\ configFile' = c.file
               /\ proc' = Process("config --set", needsSetup(configFile), "none", Unset,
                                  <<"setConfigValue",
                                    IF c.res.tag = "throw" THEN "showError"
                                    ELSE "showSuccess">>,
                                  <<0>>)
    /\ history' = IF history = "dispatched" THEN "rewritten" ELSE history
    /\ UNCHANGED commandVars

\* `config --setup`: the wizard, whatever needsSetup() says.
configCommand_setup ==
    /\ pc = "idle"
    /\ \E a \in WizardAnswers :
         \E s \in {runSetup(configFile, a)} :
            /\ configFile' = s.file
            /\ proc' = Process("config --setup", needsSetup(configFile), s.outcome,
                               s.provider, <<"runSetup">> \o s.events,
                               IF s.outcome = "failed" THEN <<1>> ELSE <<0>>)
            /\ history' = IF history = "dispatched" /\ s.outcome = "saved"
                          THEN "rewritten" ELSE history
    /\ UNCHANGED commandVars

\* An AI command: withSetupCheck, then the command body up to the first
\* await of its AskAi call (or to the return of AskAi).
aiCommand ==
    /\ pc = "idle"
    /\ \E a \in WizardAnswers, systemPrompt \in {Str(<<"s">>)}, userPrompt \in {Str(<<"a">>)} :
         \E w \in {withSetupCheck("generate", configFile, a)} :
         \E r \in {AskAi(systemPrompt, userPrompt, w.file)} :
            IF w.proc.exit # <<>>
            THEN /\ configFile' = w.file
                 /\ proc' = w.proc
                 /\ UNCHANGED <<history, commandVars>>
            ELSE /\ configFile' = r.file
                 /\ proc' = [w.proc EXCEPT !.events = @ \o <<"AskAi">>]
                 /\ args' = Some([systemPrompt |-> systemPrompt, userPrompt |-> userPrompt])
                 /\ adapter' = r.adapter
                 /\ model' = r.model
                 /\ configReads' = r.reads
                 /\ transport' = None
                 /\ pc' = IF r.res.tag = "await" THEN "inflight" ELSE "done"
                 /\ request' = IF r.res.tag = "await" THEN Some(r.res.val) ELSE None
                 /\ calls' = IF r.res.tag = "await" THEN <<r.res.val.adapter>> ELSE <<>>
                 /\ result' = IF r.res.tag = "return" THEN Some(r.res.val) ELSE None
                 /\ thrown' = (r.res.tag = "throw")
                 /\ history' = IF history = "dispatched" /\ w.proc.setup = "saved"
                               THEN "rewritten" ELSE history
                 /\ UNCHANGED <<responseText, display, entry, askOutcome, clipboardWorks,
                                poll>>

NextSetup ==
    \/ postinstall
    \/ configCommand_show
    \/ configCommand_get
    \/ configCommand_validate
    \/ configCommand_set
    \/ configCommand_setup
    \/ aiCommand
    \/ ProviderAnswers
    \/ TimeoutExpires
    \/ AskAi_Return

SpecSetup == InitSetup /\ [][NextSetup]_vars

(***************************************************************************)
(* The error taxonomy of the specification, read off the message an        *)
(* AskAIResponse carries (the code has no kind field; its messages are     *)
(* the only discriminator).                                                *)
(***************************************************************************)
KindOf(error) ==
    CASE error \in {"System prompt is required", "User prompt is required"} -> "InvalidRequest"
      [] error \in {"API key is missing", "JWT token is missing"} -> "MissingCredential"
      [] error = "model name is missing" -> "MissingModel"
      [] error = "Invalid model version format" -> "InvalidModelFormat"
      [] error \in {"Invalid API key", "Authentication failed"} -> "Unauthorized"
      [] error = "Access forbidden" -> "Forbidden"
      [] error = "rate limit exceeded" -> "RateLimited"
      [] error = "Cannot connect to Ollama server" -> "Unreachable"
      [] error = "No response content received" -> "EmptyReply"
      [] error = "Unexpected error" -> "InternalError"
      [] error = NoError -> "Success"
      [] OTHER -> "UpstreamError"

\* The response of the finished dispatch and its kind.
Response == result[1]
ResponseKind == KindOf(Response.error)

\* The configuration the running dispatch read.
Config == configFile.obj

\* A string value that is absent, empty or made of spaces only.
Blank(x) == \/ x.t = "undefined"
            \/ x.t = "string" /\ \A i \in 1..Len(x.v) : x.v[i] = " "

KeyProviders == {"groq", "openai", "claude", "openrouterai", "togetherai",
                 "huggingface", "replicate", "deepinfra"}

\* The adapter of each known provider id.
OwnAdapter == [p \in KnownProviders |->
    CASE p = "groq" -> "Groq"
      [] p = "ollama" -> "Ollama"
      [] p = "openai" -> "OpenAI"
      [] p = "claude" -> "Claude"
      [] p = "openrouterai" -> "OpenRouter"
      [] p = "togetherai" -> "Together"
      [] p = "huggingface" -> "HuggingFace"
      [] p = "replicate" -> "Replicate"
      [] p = "deepinfra" -> "DeepInfra"
      [] OTHER -> "CustomServer"]

\* The dispatch got past the prompt checks and read an object from the store.
ReachedSelection == pc # "idle" /\ configReads >= 1 /\ configFile.state = "json"

\* C1: AskAi never throws.  Whatever the provider setting, the config
\* content and the transport outcome, the promise is never rejected and a
\* finished dispatch holds an AskAIResponse; an exception raised while
\* reading the config or inside an adapter becomes the failure response
\* "Unexpected error".
C1_AskAiNeverThrows ==
    /\ ~thrown
    /\ pc = "done" => Len(result) = 1
    /\ (pc = "done" /\ configReads >= 1 /\ configFile = Corrupt) =>
           (Response.error = "Unexpected error" /\ Response.response = <<>>)
    /\ (ReachedSelection /\ Config.provider \in KeyProviders /\ Config.apiKey.t = "number") =>
           (pc = "done" /\ Response.error = "Unexpected error")

\* An exception was raised inside an adapter (trim called on a numeric key)
\* and the dispatch still ended with a failure response.
C1_Witness ==
    /\ pc = "done"
    /\ adapter = "Claude"
    /\ Config.apiKey.t = "number"
    /\ ~thrown
    /\ Response.error = "Unexpected error"

\* C2: for each of the eight key-requiring providers, a dispatch that reads a
\* missing, empty or whitespace-only API key ends with a MissingCredential
\* failure and has made no outbound call.
C2_MissingKeyNoNetwork ==
    (ReachedSelection /\ Config.provider \in KeyProviders /\ Blank(Config.apiKey)) =>
        /\ pc = "done"
        /\ calls = <<>>
        /\ transport = None
        /\ ResponseKind = "MissingCredential"
        /\ Response.response = <<>>

\* A whitespace-only key was rejected without a call.
C2_Witness ==
    /\ pc = "done"
    /\ Config.provider = "openrouterai"
    /\ Config.apiKey = Str(<<" ">>)
    /\ calls = <<>>
    /\ ResponseKind = "MissingCredential"

\* A 2xx reply from which the adapter extracts no text.
NoTextExtracted(o) == o.kind = "ok" /\ (o.shape # "text" \/ Blank(Str(o.text)))

\* C3: a finished dispatch holds exactly one of two variants: a success whose
\* text is non-empty and already trimmed and that has no error, or a failure
\* with an error message and empty text; a 2xx reply with no extractable text
\* is a failure.
C3_ExactlyOneVariant ==
    pc = "done" =>
        /\ \/ /\ Response.error = NoError
              /\ Response.response # <<>>
              /\ ~IsSpace(Head(Response.response))
              /\ ~IsSpace(Response.response[Len(Response.response)])
           \/ /\ Response.error # NoError
              /\ Response.response = <<>>
        /\ (transport # None /\ NoTextExtracted(transport[1])) => Response.error # NoError

\* A 2xx reply holding only a space came back as a failure.
C3_Witness ==
    /\ pc = "done"
    /\ transport = Some(Outcome("ok", 200, "", "text", <<" ">>))
    /\ Response.error = "No response content received"
    /\ Response.response = <<>>

\* C4: a dispatch whose system prompt or user prompt is empty or
\* whitespace-only fails with InvalidRequest; it has not read the
\* configuration (so it has not created config.json either) and has made no
\* network call.
C4_InvalidRequestBeforeConfig ==
    (pc # "idle" /\ (Blank(args[1].systemPrompt) \/ Blank(args[1].userPrompt))) =>
        /\ pc = "done"
        /\ ResponseKind = "InvalidRequest"
        /\ configReads = 0
        /\ calls = <<>>
        /\ transport = None

\* A whitespace-only user prompt was rejected while config.json was still absent.
C4_Witness ==
    /\ pc = "done"
    /\ args[1].systemPrompt = Str(<<"s">>)
    /\ args[1].userPrompt = Str(<<" ">>)
    /\ configFile = NoFile
    /\ ResponseKind = "InvalidRequest"

\* C5: whichever adapter ran, a request answered with HTTP 401 yields a
\* failure of kind Unauthorized, and the promise is not rejected.
C5_Http401IsUnauthorized ==
    (pc = "done" /\ transport # None /\ transport[1].status = 401) =>
        (~thrown /\ ResponseKind = "Unauthorized")

\* The dispatch did not fail a precondition or an internal step.
PreconditionsPassed ==
    ResponseKind \notin {"InvalidRequest", "MissingCredential", "MissingModel",
                         "InvalidModelFormat", "InternalError"}

C7_EveryRequestHasTimeout ==
    pc = "inflight" => request[1].timeout # {}

\* C8: an unset, empty or unknown provider id selects the custom-server
\* adapter, every known id selects its own adapter, and a dispatch that read
\* its configuration always enters the selected adapter.
C8_AdapterSelection ==
    /\ ReachedSelection =>
          adapter = IF Config.provider \in KnownProviders
                    THEN OwnAdapter[Config.provider]
                    ELSE "CustomServer"
    /\ pc = "inflight" => request[1].adapter = adapter

\* An id the switch does not know was sent to the custom server.
C8_Witness ==
    /\ pc = "inflight"
    /\ Config.provider = "anthropic"
    /\ adapter = "CustomServer"
    /\ calls = <<"CustomServer">>

\* The one precondition table of the specification.
UniformPrecondition(apiKey, m) ==
    IF Blank(apiKey) THEN "MissingCredential"
    ELSE IF Blank(m) THEN "MissingModel"
    ELSE "proceed"

\* What the running dispatch's precondition checks decided.
PreconditionOutcome == IF calls # <<>> THEN "proceed" ELSE ResponseKind

\* C9: every API-key adapter decides its preconditions from (apiKey, model) by
\* the same table: MissingCredential for a blank key, else MissingModel for a
\* blank model (before any network call), else the call proceeds.
C9_UniformPreconditions ==
    (ReachedSelection /\ Config.provider \in KeyProviders /\ Config.apiKey.t # "number") =>
        PreconditionOutcome = UniformPrecondition(Config.apiKey, Config.model)

\* The failure kind the specification's table gives a transport outcome.
TableKind(o) ==
    CASE o.status = 401 -> "Unauthorized"
      [] o.status = 403 -> "Forbidden"
      [] o.status = 429 -> "RateLimited"
      [] o.code \in {"ECONNREFUSED", "ENOTFOUND"} -> "Unreachable"
      [] o.code = "ECONNABORTED" -> "Timeout"
      [] OTHER -> "UpstreamError"

\* C10: every adapter maps a failed transport outcome to a failure kind by the
\* same table: 403 Forbidden, 429 RateLimited, connection refused
\* Unreachable, timeout Timeout, and UpstreamError only for what remains.
C10_UniformErrorTable ==
    (pc = "done" /\ transport # None /\ transport[1].kind # "ok") =>
        ResponseKind = TableKind(transport[1])


\* The error box the CLI shows for the finished dispatch.
ErrorBox == handleError(Response.error, Response.provider, Response.model, TRUE)

\* A finished dispatch that entered an adapter and came back as a failure.
AdapterFailure == pc = "done" /\ ~thrown /\ adapter # NoAdapter /\ Response.error # NoError

\* C11: every failure returned by a dispatch that reached an adapter carries
\* the provider and the model in use, so the message shown to the user names
\* both.  The model in use is the configured model, for an adapter that sends
\* one (every adapter but the custom server's) and when one is configured.
C11_FailureNamesProviderAndModel ==
    (AdapterFailure /\ adapter # "CustomServer" /\ Truthy(model)) =>
        /\ Response.provider = adapter
        /\ Response.model = model
        /\ ErrorBox.provider = <<adapter>>
        /\ ErrorBox.model = <<model.v>>

\* The credential the selected adapter sends: the stored jwt for the custom
\* server, none for Ollama, the stored apiKey for every other provider.
StoredCredential ==
    CASE adapter = "CustomServer" -> Config.jwt
      [] adapter = "Ollama" -> JSUndef
      [] OTHER -> Config.apiKey

\* C20: each dispatch reads the provider configuration afresh and caches
\* nothing.  Whatever was written to the store before the dispatch runs (set,
\* delete), the dispatch selects the adapter of the provider stored now, is
\* given the model stored now, and a request it sends carries the key or token
\* stored now.
C20_DispatchUsesStoredConfig ==
    ReachedSelection =>
        /\ adapter = SelectAdapter(Config.provider)
        /\ model = Config.model
        /\ request # None => request[1].auth = StoredCredential

\* A dispatch after a config write that followed an earlier dispatch has a
\* request in flight with a stored key, or a stored token, in it.
C20_Witness ==
    /\ history = "rewritten"
    /\ pc = "inflight"
    /\ Truthy(request[1].auth)
    /\ adapter \in {"OpenAI", "CustomServer"}


(***************************************************************************)
(* The formatting step.                                                    *)
(***************************************************************************)
\* What the finished command showed.
Shown == display[1]

Formatted == display # None /\ Shown.shown = "output"

LabelContentCommands == {"explain", "teach", "examples", "improve", "convert", "debug", "fix"}

\* The records of the display output, read back from its lines: the label
\* cell without its padding, and the content cell.
RenderedRecords ==
    LET r == Shown.rendered
    IN [k \in 1..((Len(r) + 1) \div 3) |-> <<trimEnd(r[3 * k - 2].text), r[3 * k - 1].text>>]

\* Valid records: a label and a content that are not blank and hold neither
\* separator.  A valid text is one to MaxChunks of them, separated by `---`.
ValidFields(fields) ==
    {f \in fields : /\ trim(f) # <<>>
                    /\ indexOf(f, FIELD_SEPARATOR) = 0
                    /\ indexOf(f, RECORD_SEPARATOR) = 0}
ValidRecords == ValidFields(Labels) \X ValidFields(Contents)
ValidTexts ==
    {[text |-> join([i \in 1..Len(rs) |-> rs[i][1] \o FIELD_SEPARATOR \o rs[i][2]], sep),
      records |-> [i \in 1..Len(rs) |-> <<trim(rs[i][1]), trim(rs[i][2])>>]] :
        rs \in UNION {[1..n -> ValidRecords] : n \in 1..MaxChunks}, sep \in Separators}

\* C12: for a raw text made of N >= 1 valid `label ||| content` records
\* separated by `---`, each label/content formatter produces exactly N
\* records, in the order of the text, each with its trimmed non-empty label
\* and content.
C12_ValidRecordsKept ==
    (display # None /\ Shown.command \in LabelContentCommands) =>
        \A v \in ValidTexts :
            v.text = responseText =>
                /\ Formatted
                /\ RenderedRecords = v.records
                /\ \A i \in 1..Len(RenderedRecords) :
                       RenderedRecords[i][1] # <<>> /\ RenderedRecords[i][2] # <<>>

\* The teach command has formatted two different valid records.
C12_Witness ==
    /\ Formatted
    /\ Shown.command = "teach"
    /\ \E v \in ValidTexts : /\ v.text = responseText
                             /\ Len(v.records) = 2
                             /\ v.records[1][1] # v.records[2][1]
                             /\ RenderedRecords = v.records


\* A chunk split at the first field separator only: the trimmed text before
\* it and the trimmed text after it.
splitOnce(chunk) ==
    LET i == indexOf(chunk, FIELD_SEPARATOR)
    IN <<trim(SubSeq(chunk, 1, i - 1)),
         trim(SubSeq(chunk, i + Len(FIELD_SEPARATOR), Len(chunk)))>>

\* C13: in a chunk where `|||` appears more than once only the first
\* occurrence splits, and the content is everything after it.  Stated for a
\* reply of one chunk (no `---` in it) with a field separator: when both
\* sides of the first separator are non-blank, the one record shown has the
\* text before it as label and all the text after it as content.
C13_FirstSeparatorSplits ==
    (/\ Formatted
     /\ Shown.command \in LabelContentCommands
     /\ indexOf(responseText, RECORD_SEPARATOR) = 0
     /\ indexOf(responseText, FIELD_SEPARATOR) # 0) =>
        LET record == splitOnce(responseText)
        IN (record[1] # <<>> /\ record[2] # <<>>) => RenderedRecords = <<record>>


\* C14: for every task kind, a reply with zero valid items (for generate:
\* only empty comma-separated parts) ends in a failure, so what a command
\* shows as its output is never an empty display text or an empty plain text.
C14_NoEmptyOutput ==
    Formatted => stripAnsi(Shown.rendered) # <<>> /\ Shown.raw # <<>>


\* A line of the text consists solely of the record separator.
HasSeparatorLine(text) ==
    LET ls == split(text, LINE_BREAK)
    IN \E i \in 1..Len(ls) : trim(ls[i]) = RECORD_SEPARATOR

\* C15: the raw text is split into records only at lines consisting solely of
\* `---`; a `---` inside a line does not start a new record.  Stated for a
\* reply without a separator line and with exactly one `|||`: it is one
\* record, whose content runs to the end of the text.
C15_OnlySeparatorLinesSplit ==
    (/\ Formatted
     /\ Shown.command \in LabelContentCommands
     /\ ~HasSeparatorLine(responseText)
     /\ Len(split(responseText, FIELD_SEPARATOR)) = 2) =>
        LET record == splitOnce(responseText)
        IN (record[1] # <<>> /\ record[2] # <<>>) => RenderedRecords = <<record>>


\* The chunks of a text that have a `|||` with a non-blank text before it and
\* a non-blank text after it (up to the next `|||`).
CompleteChunks(text) ==
    LET chunks == split(text, RECORD_SEPARATOR)
        complete(k) == LET ps == split(chunks[k], FIELD_SEPARATOR)
                       IN Len(ps) >= 2 /\ trim(ps[1]) # <<>> /\ trim(ps[2]) # <<>>
    IN {k \in 1..Len(chunks) : complete(k)}

\* C16: for an arbitrary raw text each record a label/content formatter emits
\* has a non-empty, trimmed label and content; a chunk without `|||` or with
\* an empty side is dropped and leaves no placeholder line (the display has
\* one line break between two records and nothing else); a leading or
\* trailing separator is not an error.
C16_OnlyCompleteRecords ==
    (display # None /\ Shown.command \in LabelContentCommands /\ trim(responseText) # <<>>) =>
        /\ Formatted
        /\ \A i \in 1..Len(RenderedRecords) :
               \A j \in 1..2 : /\ RenderedRecords[i][j] # <<>>
                               /\ trim(RenderedRecords[i][j]) = RenderedRecords[i][j]
        /\ Len(RenderedRecords) = Cardinality(CompleteChunks(responseText))
        /\ Len(Shown.rendered) = IF RenderedRecords = <<>> THEN 0
                                 ELSE 3 * Len(RenderedRecords) - 1

\* The debug command got a reply that starts with a separator (its first
\* chunk is blank) and showed the one complete record that follows.
C16_Witness ==
    /\ Formatted
    /\ Shown.command = "debug"
    /\ Len(split(responseText, RECORD_SEPARATOR)) = 2
    /\ trim(split(responseText, RECORD_SEPARATOR)[1]) = <<>>
    /\ Len(RenderedRecords) = 1


\* The labels of the reply's complete chunks, in order.
ReplyLabels ==
    LET chunks == split(responseText, RECORD_SEPARATOR)
        parts == [k \in 1..Len(chunks) |->
                     LET ps == split(chunks[k], FIELD_SEPARATOR)
                     IN [i \in 1..Len(ps) |-> trim(ps[i])]]
        complete == SelectSeq(parts, LAMBDA ps : Len(ps) >= 2 /\ ps[1] # <<>> /\ ps[2] # <<>>)
    IN [k \in 1..Len(complete) |-> complete[k][1]]

\* The length of the longest of some labels.
maxLabelWidth(labels) ==
    CHOOSE m \in {Len(labels[i]) : i \in 1..Len(labels)} :
        \A i \in 1..Len(labels) : Len(labels[i]) <= m

\* C17: in the display output every record's label field occupies exactly
\* maxLabelWidth + 2 characters before its content, maxLabelWidth being the
\* length of the longest label of that response: the field is the label
\* followed by spaces only, and the content follows it directly.
C17_LabelFieldWidth ==
    (Formatted /\ Shown.command \in LabelContentCommands) =>
        LET labels == ReplyLabels
            rendered == Shown.rendered
        IN labels # <<>> =>
             LET width == maxLabelWidth(labels) + 2
             IN /\ Len(rendered) = 3 * Len(labels) - 1
                /\ \A k \in 1..Len(labels) :
                       LET field == rendered[3 * k - 2].text
                       IN /\ Len(field) = width
                          /\ SubSeq(field, 1, Len(labels[k])) = labels[k]
                          /\ \A i \in (Len(labels[k]) + 1)..Len(field) : field[i] = " "
                          /\ rendered[3 * k - 1].style # "none"
                          /\ rendered[3 * k - 1].text # <<>>

\* The convert command has shown two records whose labels differ in length.
C17_Witness ==
    /\ Formatted
    /\ Shown.command = "convert"
    /\ Len(ReplyLabels) = 2
    /\ Len(ReplyLabels[1]) < Len(ReplyLabels[2])
    /\ Len(Shown.rendered[1].text) = Len(ReplyLabels[2]) + 2


\* The separator each command's plain line puts between label and content
\* (the convert command's plain line is rebuilt with the recommended ": ").
PlainSeparator(command) ==
    IF command \in {"examples", "improve", "fix"} THEN DASH ELSE COLON

\* The label/content pairs read back from the plain output: one pair per
\* line, split at the line's first separator; a line without one gives no
\* label.
Reconstruct(raw, sep) ==
    LET ls == split(raw, LINE_BREAK)
    IN [i \in 1..Len(ls) |->
           LET j == indexOf(ls[i], sep)
           IN IF j = 0 THEN <<<<>>, ls[i]>>
              ELSE <<SubSeq(ls[i], 1, j - 1), SubSeq(ls[i], j + Len(sep), Len(ls[i]))>>]

\* C18: the plain (clipboard) output is lossless: all label/content pairs of
\* the response, in order, can be reconstructed from its lines.  Stated for
\* responses whose labels and contents hold no line break and no plain
\* separator, so that a line-by-line reading is unambiguous.
C18_PlainIsLossless ==
    (Formatted /\ Shown.command \in LabelContentCommands) =>
        LET records == RenderedRecords
            sep == PlainSeparator(Shown.command)
            clean(f) == indexOf(f, LINE_BREAK) = 0 /\ indexOf(f, sep) = 0
        IN (/\ records # <<>>
            /\ \A i \in 1..Len(records) : clean(records[i][1]) /\ clean(records[i][2])) =>
               Reconstruct(Shown.raw, sep) = records


\* The comma-separated parts of the reply, trimmed, the empty ones removed.
ReplyCommands ==
    LET ps == split(responseText, <<",">>)
    IN SelectSeq([i \in 1..Len(ps) |-> trim(ps[i])], LAMBDA c : c # <<>>)

\* The numbered lines "1. first", "2. second", ... of some commands.
NumberedLines(commands) ==
    [i \in 1..Len(commands) |-> toDecimal(i) \o <<".", " ">> \o commands[i]]

\* C19 as stated: the generate list is the comma-separated parts of the
\* reply, trimmed, the empty ones removed, in order; the display numbers them
\* 1..k consecutively, one command per line; the plain output holds the same
\* k commands in order, one per line.
C19_OneCommandPerLine ==
    (Formatted /\ Shown.command = "generate") =>
        LET commands == ReplyCommands
        IN commands # <<>> =>
             /\ split(stripAnsi(Shown.rendered), LINE_BREAK) = NumberedLines(commands)
             /\ split(Shown.raw, LINE_BREAK) = commands

\* C19, amended: the display is the commands numbered 1..k consecutively and
\* the plain output is the same k commands in order, both joined by line
\* breaks; that is one command per line when no command holds a line break
\* (a command that holds one spans several lines, under a single number).
C19_NumberedCommands ==
    (Formatted /\ Shown.command = "generate") =>
        LET commands == ReplyCommands
            oneLine == \A i \in 1..Len(commands) : indexOf(commands[i], LINE_BREAK) = 0
        IN commands # <<>> =>
             /\ stripAnsi(Shown.rendered) = join(NumberedLines(commands), LINE_BREAK)
             /\ Shown.raw = join(commands, LINE_BREAK)
             /\ oneLine => /\ split(stripAnsi(Shown.rendered), LINE_BREAK)
                                = NumberedLines(commands)
                           /\ split(Shown.raw, LINE_BREAK) = commands

\* The generate command has listed at least two commands from a reply that
\* also had an empty part, none of them holding a line break.
C19_Witness ==
    /\ Formatted
    /\ Shown.command = "generate"
    /\ Len(ReplyCommands) >= 2
    /\ Len(split(responseText, <<",">>)) > Len(ReplyCommands)
    /\ indexOf(responseText, LINE_BREAK) = 0
    /\ split(Shown.raw, LINE_BREAK) = ReplyCommands


(***************************************************************************)
(* The store around a dispatch.                                            *)
(***************************************************************************)
\* C21: a dispatch never mutates the configuration store.  For every
\* starting store (no config file included) each step of a dispatch, from
\* the call of AskAi to the return of its response, leaves config.json as it
\* was.
C21_DispatchLeavesStore ==
    [][(AskAi_Call \/ ProviderAnswers \/ TimeoutExpires \/ AskAi_Return)
          => configFile' = configFile]_vars


(***************************************************************************)
(* A command run as a whole.                                               *)
(***************************************************************************)
\* How often a call appears among the calls the command made.
Count(call) == Cardinality({i \in 1..Len(Shown.events) : Shown.events[i] = call})

\* The positions of a call.
At(call) == {i \in 1..Len(Shown.events) : Shown.events[i] = call}

\* AskAi resolved to a response without error whose text is a non-blank string.
UsableReply ==
    /\ askOutcome.kind = "response"
    /\ askOutcome.error = NoError
    /\ askOutcome.shape = "string"
    /\ trim(responseText) # <<>>

\* C25: in executeAICommand, for every outcome of AskAi (success, failure
\* response, empty text, thrown exception) exactly one of handleOutput and
\* handleError is invoked, the formatter is invoked only for a response with
\* no error and non-empty text, and the spinner has been stopped before
\* either is invoked.
C25_ExactlyOneHandler ==
    display # None =>
        /\ Count("handleOutput") + Count("handleError") = 1
        /\ Count("formatter") = (IF UsableReply THEN 1 ELSE 0)
        /\ Count("handleOutput") = (IF UsableReply THEN 1 ELSE 0)
        /\ \A i \in At("handleOutput") \cup At("handleError") :
               /\ \E j \in At("spinner.stop") : j < i
               /\ \A j \in At("spinner.start") : \E k \in At("spinner.stop") : j < k /\ k < i
               /\ \A j \in At("formatter") : j < i

\* AskAi rejected, and the command reported the error it was rejected with.
C25_Witness ==
    /\ display # None
    /\ askOutcome.kind = "throw"
    /\ askOutcome.shape = "response"
    /\ Count("handleError") = 1
    /\ Shown.error = askOutcome.error

\* What is written to the terminal and what is copied, for an output: the
\* output box before the copy, a warning after a failing copy, and the box
\* is the formatter's text.
OutputThenCopy ==
    "handleOutput" \in {Shown.events[i] : i \in 1..Len(Shown.events)} =>
        /\ \A i \in At("showOutput") : \A j \in At("clipboard.writeSync") : i < j
        /\ Count("showOutput") = 1
        /\ Shown.shown = "output"
        /\ Count("showErrorBox") = 0 /\ Count("showError") = 0
        /\ clipboardWorks => Shown.copied = <<Shown.raw>>
        /\ ~clipboardWorks => Shown.copied = <<>>

\* Every way AskAi can fail the command is reported in the error box.
FailureReported ==
    ~UsableReply => /\ Count("showErrorBox") = 1
                    /\ Shown.shown = "error"
                    /\ Shown.error \notin {NoError, ""}

\* C23 as stated: the clipboard copy is best-effort: the rendered text is
\* written to the terminal before the copy is attempted, a failing copy
\* produces only a warning, and it neither suppresses the displayed output
\* nor makes the command fail; no other failure kind is silently swallowed.
C23_FailingCopyWarns ==
    display # None =>
        /\ OutputThenCopy
        /\ FailureReported
        /\ \A i \in At("clipboard.writeSync") :
               ~clipboardWorks => /\ i < Len(Shown.events)
                                  /\ Shown.events[i + 1] = "showWarning"

\* C23, amended: as stated for the copy of an output; the copy of an error
\* message (handleError) that fails produces nothing at all, not even a
\* warning, and leaves the error box shown.
C23_BestEffortCopy ==
    display # None =>
        /\ OutputThenCopy
        /\ FailureReported
        /\ \A i \in At("clipboard.writeSync") :
               ~clipboardWorks =>
                   IF Shown.shown = "output"
                   THEN /\ i + 1 = Len(Shown.events)
                        /\ Shown.events[i + 1] = "showWarning"
                   ELSE /\ i = Len(Shown.events)
                        /\ \A j \in At("showErrorBox") : j < i

\* An output was shown although its copy to the clipboard failed.
C23_Witness ==
    /\ display # None
    /\ ~clipboardWorks
    /\ Shown.shown = "output"
    /\ Shown.rendered # <<>>
    /\ Count("showWarning") = 1

\* The text the user supplied: the arguments as typed on the command line,
\* or the text typed at the prompt.
Supplied == IF entry.path = "args" THEN join(entry.args, <<" ">>) ELSE entry.typed

\* C30: on every entry path (command-line arguments, the inline prompt, the
\* interactive menu) the user prompt sent to the gateway equals the text the
\* user supplied with only leading and trailing whitespace removed; interior
\* whitespace is preserved.
C30_PromptOnlyTrimmed ==
    display # None => Shown.sent = trim(Supplied)


\* C24: the default service needs no setup and works out of the box.  Under
\* the default configuration (provider `server`, no credentials entered by
\* the user) a dispatch with both prompts present is forwarded to the
\* managed server: a request of the custom-server adapter goes out instead
\* of a local precondition failing.
C24_DefaultServiceForwards ==
    (/\ pc # "idle"
     /\ configReads >= 1
     /\ Config = DEFAULT_CONFIG) => calls = <<"CustomServer">>


(***************************************************************************)
(* Device authentication.                                                  *)
(***************************************************************************)
\* C29: pollForToken returns only a non-empty access token and fails on any
\* error other than authorization_pending; between any two consecutive token
\* polls it waits the 5-second polling interval, whatever the previous
\* poll's outcome (a 2xx reply that carries no access_token included).
C29_PollsFiveSecondsApart ==
    /\ poll.pc = "returned" => /\ Truthy(poll.token)
                               /\ poll.token = poll.last[1].token
    /\ (/\ poll.last # <<>>
        /\ poll.last[1].kind # "2xx"
        /\ poll.last[1].error # "authorization_pending") => poll.pc = "thrown"
    /\ \A i \in 1..(Len(poll.log) - 1) :
           poll.log[i] = "axios.post" => poll.log[i + 1] = "setTimeout(5000)"


(***************************************************************************)
(* First-time setup.                                                       *)
(***************************************************************************)
\* C27: needsSetup() stays true until the setup wizard has completed once or
\* the user has explicitly set a configuration value: no other operation
\* (postinstall, config --show, config --get, a gateway call) turns it false.
C27_OnlySetupEndsFirstRun ==
    [][(needsSetup(configFile) /\ ~needsSetup(configFile'))
          => (proc'.setup = "saved" \/ proc'.command = "config --set")]_vars

\* C28: after runSetup has completed successfully for any provider the
\* wizard offers, validateConfig() returns true for the saved configuration.
C28_WizardConfigIsValid ==
    proc.setup = "saved" => validateConfig(configFile).res

\* C22: the base URL an adapter sends its request to is the one held in the
\* config store: once an Ollama URL or a server URL is stored, the dispatch
\* for that provider targets the stored URL.
C22_RequestTargetsStoredUrl ==
    request # None =>
        LET stored == configFile.obj
        IN /\ (request[1].adapter = "Ollama" /\ stored.ollamaUrl # Unset)
                => request[1].url.base = <<stored.ollamaUrl, "/api/chat">>
           /\ (request[1].adapter = "CustomServer" /\ stored.serverUrl # Unset)
                => request[1].url.base = <<stored.serverUrl, "/api/askai">>

\* Where call is in the events of the process (0 when it is not there).
Position(call) ==
    IF \E i \in 1..Len(proc.events) : proc.events[i] = call
    THEN CHOOSE i \in 1..Len(proc.events) :
             proc.events[i] = call /\ \A j \in 1..(i - 1) : proc.events[j] # call
    ELSE 0

\* C26: whenever needsSetup() is true when a command starts, the command
\* body (and so any gateway call) runs only after runSetup has completed; if
\* setup fails, the process exits with code 1 and no gateway call is made.
C26_SetupBeforeBody ==
    (proc.command = "generate" /\ proc.needed) =>
        /\ Position("runSetup") > 0
        /\ proc.setup = "failed" =>
              /\ proc.exit = <<1>>
              /\ Position("fn") = 0 /\ Position("AskAi") = 0
              /\ pc = "idle" /\ request = None /\ calls = <<>> /\ configReads = 0
        /\ Position("fn") > 0 =>
              /\ proc.setup \in {"saved", "existing"}
              /\ Position("process.exit(1)") = 0
              /\ Position("runSetup") < Position("showSummary")
              /\ Position("showSummary") < Position("fn")
        /\ pc # "idle" => Position("fn") > 0 /\ Position("fn") < Position("AskAi")

\* A command started without a configuration, the wizard saved one, and the
\* command's request is in flight.
C26_Witness ==
    /\ proc.command = "generate" /\ proc.needed /\ proc.setup = "saved"
    /\ pc = "inflight"

====
